---- MODULE Spec2Model ----
(***************************************************************************)
(* Model of the MPSSE protocol engine of ftdi_mpsse: the buffered command  *)
(* transport (FtdiDevice), the MPSSE command processor it talks to, and    *)
(* the two-wire bus state machine (MpsseI2c).                              *)
(*                                                                         *)
(* Every operation of the code is a pure operator over a "device world"    *)
(* record d (command buffer, chip pins, chip response queue, and the logs  *)
(* of the current call) and an environment script o that fixes what the    *)
(* hardware layer answers to each ftdi_write_data / ftdi_read_data call.   *)
(* One action per public operation applies the operator to the state.      *)
(* Spec has the callers of MpsseI2c; DevSpec adds the callers that use the *)
(* public operations of FtdiDevice directly.                               *)
(***************************************************************************)
EXTENDS Integers, Sequences, FiniteSets, TLC

VARIABLES
  buffer,   \* FtdiDevice::buffer_[0 .. buffer_len_-1]
  chip,     \* MPSSE chip: [st, dir, pend, rxq, mode] pins, latched partial command,
            \* responses, bit mode
  last,     \* record of the most recent public call (arguments, result, logs)
  chain,    \* position in a Start; WriteByte*; Stop sequence begun from idle
  faulted,  \* the environment has injected an I/O fault into some call so far
  after,    \* number of calls made since that fault
  pc,       \* "idle": the caller may call; "returned": a call has just returned
  passed,   \* how many leading bytes of buffer were already given to ftdi_write_data
  devCalls, \* calls made since the caller first used FtdiDevice directly (0: never)
  engine    \* an MpsseI2c object exists

vars == <<buffer, chip, last, chain, faulted, after, pc, passed, devCalls, engine>>

-----------------------------------------------------------------------------
(* Bounds of the model *)

MaxTxLen == 2        \* longest tx_data passed to Transaction
MaxRxSmall == 2      \* small rx_len values 0..MaxRxSmall (plus the buffer-limit ones)
MaxAfter == 1        \* calls followed after the call that suffered an I/O fault
MaxChainBytes == 2   \* WriteByte calls counted inside one Start..Stop chain
MaxDevCalls == 2     \* calls made once the caller uses FtdiDevice directly
MaxPixels == 2       \* pixels of one frame given to SendFrame
MaxSplitPolls == 4   \* ftdi_read_data calls of one MpsseSync whose echo arrives in pieces
MaxPolls == 2        \* ftdi_read_data calls of one MpsseSync that return before 10 ms

-----------------------------------------------------------------------------
(* Program constants *)

kBufferSize == 512

\* libftdi MPSSE opcodes used by the code
MPSSE_WRITE_NEG == 1
MPSSE_BITMODE == 2
MPSSE_LSB == 8
MPSSE_DO_WRITE == 16
MPSSE_DO_READ == 32
SET_BITS_LOW == 128
SEND_IMMEDIATE == 135
TCK_DIVISOR == 134
DIS_DIV_5 == 138
EN_3_PHASE == 140
DIS_3_PHASE == 141
EN_ADAPTIVE == 150
DIS_ADAPTIVE == 151

MPSSE_IDLE_LOW_WRITE == MPSSE_DO_WRITE + MPSSE_WRITE_NEG
MPSSE_IDLE_LOW_READ == MPSSE_DO_READ

\* Returned by the chip in front of an opcode it does not know
BAD_COMMAND == 250

-----------------------------------------------------------------------------
(* Helpers *)

Bit(v, i) == (v \div (2 ^ i)) % 2

Min(a, b) == IF a < b THEN a ELSE b

Take(s, n) == SubSeq(s, 1, Min(n, Len(s)))

Drop(s, n) == SubSeq(s, Min(n, Len(s)) + 1, Len(s))

\* A local variable: v is computed once and K works on it
Let(v, K(_)) == K(v)

-----------------------------------------------------------------------------
(* The environment script of one public call.                              *)
(*   wfAt, wfKind : the wfAt-th ftdi_write_data call of the call fails     *)
(*                  ("fail": returns -1, nothing reaches the chip) or is   *)
(*                  short ("short": all but the last byte are accepted);   *)
(*                  wfAt = 0 means every write is accepted in full.        *)
(*   rfAt, rfKind : the rfAt-th FtdiDevice::Read of the call sees a read   *)
(*                  error ("err"), only empty polls until the deadline     *)
(*                  ("timeout"), or - no fault - gets its bytes in two     *)
(*                  deliveries after an empty poll ("split").              *)
(*   nackAt       : the nackAt-th acknowledge bit sampled on the bus is 1. *)
(*   ackHi        : value of the 7 upper bits of an acknowledge response.  *)
(*   seed         : first data byte the addressed device sends.            *)
(***************************************************************************)

NoFault == [wfAt |-> 0, wfKind |-> "fail", rfAt |-> 0, rfKind |-> "split"]

AckByte(o, k) == o.ackHi + (IF k = o.nackAt THEN 1 ELSE 0)

DataByte(o, k) == (o.seed + 16 * (k - 1)) % 256

-----------------------------------------------------------------------------
(* MPSSE command processor (FT2232H).  SCL is ADBUS0, SDA is ADBUS1.       *)

\* One-byte commands that set a clock mode
ClockModeOps == {DIS_DIV_5, EN_3_PHASE, DIS_3_PHASE, EN_ADAPTIVE, DIS_ADAPTIVE}

\* Byte-mode shifts op LL HH: LL + 256 HH + 1 bytes are clocked in, or the
\* data bytes that follow are clocked out
ByteRead(op) == op < 128 /\ Bit(op, 1) = 0 /\ Bit(op, 4) = 0 /\ Bit(op, 5) = 1

ByteWrite(op) == op < 128 /\ Bit(op, 1) = 0 /\ Bit(op, 4) = 1 /\ Bit(op, 5) = 0

ByteCount(cmd) == cmd[2] + 256 * cmd[3] + 1

\* Number of bytes of the command that starts with opcode op, without the
\* data of a byte-mode shift-out; 0 = bad command
CmdLen(op) ==
  IF op = SET_BITS_LOW \/ op = TCK_DIVISOR THEN 3
  ELSE IF op = SEND_IMMEDIATE \/ op \in ClockModeOps THEN 1
  ELSE IF ByteRead(op) \/ ByteWrite(op) THEN 3
  ELSE IF op < 128 /\ Bit(op, 1) = 1 /\ Bit(op, 4) = 1 /\ Bit(op, 5) = 0 THEN 3
  ELSE IF op < 128 /\ Bit(op, 1) = 1 /\ Bit(op, 4) = 0 /\ Bit(op, 5) = 1 THEN 2
  ELSE 0

\* Level left on the data-out pin by a bit-mode shift-out of nbits bits of v
LastBitOut(op, nbits, v) ==
  IF Bit(op, 3) = 1 THEN Bit(v, nbits - 1) ELSE Bit(v, 8 - nbits)

SetBit1(st, b) == st - 2 * Bit(st, 1) + 2 * b

\* Execute one complete command cmd in world d; a byte-mode shift-out comes
\* with the data bytes that have arrived
ChipStep(d, o, cmd) ==
  LET op == cmd[1] IN
  IF op = SET_BITS_LOW THEN
    [d EXCEPT !.st = cmd[2], !.dir = cmd[3],
              !.wire = Append(@, [k |-> "pins", a |-> cmd[2], b |-> cmd[3]])]
  ELSE IF op = SEND_IMMEDIATE THEN
    [d EXCEPT !.wire = Append(@, [k |-> "imm", a |-> 0, b |-> 0])]
  ELSE IF op = TCK_DIVISOR THEN
    [d EXCEPT !.wire = Append(@, [k |-> "div", a |-> cmd[2], b |-> cmd[3]])]
  ELSE IF op \in ClockModeOps THEN
    [d EXCEPT !.wire = Append(@, [k |-> "mode", a |-> op, b |-> 0])]
  ELSE IF ByteRead(op) THEN
    LET resp == [i \in 1..ByteCount(cmd) |-> DataByte(o, d.nD + i)] IN
    [d EXCEPT !.rxq = @ \o resp,
              !.nD = @ + Len(resp),
              !.wire = @ \o [i \in 1..Len(resp) |-> [k |-> "in", a |-> 8, b |-> resp[i]]]]
  ELSE IF ByteWrite(op) THEN
    LET data == SubSeq(cmd, 4, Len(cmd)) IN
    IF data = <<>> THEN d
    ELSE [d EXCEPT !.st = SetBit1(@, LastBitOut(op, 8, data[Len(data)])),
                   !.wire = @ \o [i \in 1..Len(data) |->
                                    [k |-> IF Bit(op, 3) = 1 THEN "outL" ELSE "outM",
                                     a |-> 8, b |-> data[i]]]]
  ELSE IF Len(cmd) = 3 THEN
    LET nbits == (cmd[2] % 8) + 1 IN
    [d EXCEPT !.st = SetBit1(@, LastBitOut(op, nbits, cmd[3])),
              !.wire = Append(@, [k |-> IF Bit(op, 3) = 1 THEN "outL" ELSE "outM",
                                  a |-> nbits, b |-> cmd[3]])]
  ELSE IF Len(cmd) = 2 THEN
    LET nbits == (cmd[2] % 8) + 1
        resp == IF nbits = 1 THEN AckByte(o, d.nA + 1) ELSE DataByte(o, d.nD + 1)
    IN [d EXCEPT !.rxq = Append(@, resp),
                 !.nA = IF nbits = 1 THEN @ + 1 ELSE @,
                 !.nD = IF nbits = 1 THEN @ ELSE @ + 1,
                 !.wire = Append(@, [k |-> "in", a |-> nbits, b |-> resp])]
  ELSE
    [d EXCEPT !.rxq = @ \o <<BAD_COMMAND, op>>,
              !.wire = Append(@, [k |-> "bad", a |-> op, b |-> 0])]

\* A byte-mode shift-out at d.ip whose length bytes have arrived: the data
\* that is there is clocked out; when data is missing the chip waits with the
\* count of the bytes still to come
ShiftOut(d, o) ==
  LET op == d.in[d.ip]
      total == ByteCount(SubSeq(d.in, d.ip, d.ip + 2))
      k == Min(total, Len(d.in) - (d.ip + 2))
  IN Let(ChipStep(d, o, SubSeq(d.in, d.ip, d.ip + 2 + k)), LAMBDA d1 :
       IF k = total THEN [d1 EXCEPT !.ip = d.ip + 3 + k]
       ELSE [d1 EXCEPT !.in = <<op, (total - k - 1) % 256, (total - k - 1) \div 256>>,
                       !.ip = 1])

\* The chip takes the next command from its input d.in at position d.ip, if
\* it is complete, and executes it; an incomplete command stays where it is
ChipNext(d, o) ==
  IF d.ip > Len(d.in) THEN d
  ELSE LET n == CmdLen(d.in[d.ip])
           m == IF n = 0 THEN 1 ELSE n
       IN IF d.ip + m - 1 > Len(d.in) THEN d
          ELSE IF ByteWrite(d.in[d.ip]) THEN ShiftOut(d, o)
          ELSE [ChipStep(d, o, SubSeq(d.in, d.ip, d.ip + m - 1)) EXCEPT !.ip = d.ip + m]

\* n times ChipNext (halving keeps the evaluation shallow)
RECURSIVE ChipRun(_, _, _)
ChipRun(d, o, n) ==
  IF n <= 0 THEN d
  ELSE IF n = 1 THEN ChipNext(d, o)
  ELSE LET d1 == ChipRun(d, o, n \div 2) IN
       IF d1.ip > Len(d1.in) THEN d1 ELSE ChipRun(d1, o, n - (n \div 2))

\* The chip receives bytes behind what it has latched and runs every complete
\* command; an incomplete command at the end stays latched
ChipExec(d, o, bytes) ==
  Let(ChipRun([d EXCEPT !.in = d.pend \o bytes, !.ip = 1], o, Len(d.pend) + Len(bytes)),
      LAMBDA d1 : [d1 EXCEPT !.pend = SubSeq(d1.in, d1.ip, Len(d1.in)), !.in = <<>>, !.ip = 1])

\* Bus lines as driven by the chip
SclLine(c) == IF Bit(c.dir, 0) = 0 THEN "released"
              ELSE IF Bit(c.st, 0) = 1 THEN "high" ELSE "low"

SdaLine(c) == IF Bit(c.dir, 1) = 0 THEN "released"
              ELSE IF Bit(c.st, 1) = 1 THEN "high" ELSE "low"

BothHigh(c) == SclLine(c) = "high" /\ SdaLine(c) = "high"

BothLow(c) == SclLine(c) = "low" /\ SdaLine(c) = "low"

-----------------------------------------------------------------------------
(* FtdiDevice: command buffer, flush, bounded-time read, pin command       *)

\* emptied only observes: how often the call has set buffer_len_ to 0
BufferClear(d) == [d EXCEPT !.buf = <<>>, !.passed = 0, !.emptied = @ + 1]

\* Mutant of BufferByte: the byte is stored without looking at the length
BufferByte_NoCheck(d, data) == [d EXCEPT !.buf = Append(@, data), !.ret = 0]

BufferByte(d, data) ==
  IF Len(d.buf) >= kBufferSize THEN [d EXCEPT !.ret = -1]
  ELSE [d EXCEPT !.buf = Append(@, data), !.ret = 0]

\* Mutant of BufferBytes: the bytes that still fit are stored before it fails
BufferBytes_Prefix(d, data) ==
  IF Len(d.buf) + Len(data) > kBufferSize
  THEN [d EXCEPT !.buf = @ \o SubSeq(data, 1, kBufferSize - Len(d.buf)), !.ret = -1]
  ELSE [d EXCEPT !.buf = @ \o data, !.ret = 0]

BufferBytes(d, data) ==
  IF Len(d.buf) + Len(data) > kBufferSize THEN [d EXCEPT !.ret = -1]
  ELSE [d EXCEPT !.buf = @ \o data, !.ret = 0]

\* ftdi_write_data(context_, bytes, Len(bytes)): the environment decides how
\* many bytes are accepted; the accepted bytes are executed by the chip.
HwWrite(d, o, bytes) ==
  LET idx == Len(d.writes) + 1
      kind == IF idx = o.wfAt THEN o.wfKind ELSE "ok"
      acc == IF kind = "ok" THEN bytes
             ELSE IF kind = "short" THEN SubSeq(bytes, 1, Len(bytes) - 1)
             ELSE <<>>
      r == IF kind = "fail" THEN -1 ELSE Len(acc)
      d1 == ChipExec(d, o, acc)
  IN [d1 EXCEPT !.writes = Append(@, [bytes |-> bytes, ret |-> r]), !.ret = r]

\* Mutant of BufferFlush: an empty buffer is written as well
BufferFlush_NoEmptyCheck(d, o) ==
  Let(HwWrite(d, o, d.buf), LAMBDA d1 :
    IF d1.ret # Len(d.buf)
    THEN [d1 EXCEPT !.ret = -1, !.resent = @ + d.passed, !.passed = Len(d.buf)]
    ELSE [d1 EXCEPT !.buf = <<>>, !.ret = 0, !.resent = @ + d.passed, !.passed = 0,
                    !.emptied = @ + 1])

\* Mutant of BufferFlush: buffer_len_ is reset before the result is checked
BufferFlush_ResetFirst(d, o) ==
  IF Len(d.buf) = 0 THEN [d EXCEPT !.ret = 0]
  ELSE Let(HwWrite(d, o, d.buf), LAMBDA d1 :
         IF d1.ret # Len(d.buf)
         THEN [d1 EXCEPT !.buf = <<>>, !.ret = -1, !.resent = @ + d.passed, !.passed = 0]
         ELSE [d1 EXCEPT !.buf = <<>>, !.ret = 0, !.resent = @ + d.passed, !.passed = 0,
                         !.emptied = @ + 1])

\* passed / resent only observe: the bytes of the buffer that an earlier
\* ftdi_write_data was already given are given to this one again
BufferFlush(d, o) ==
  IF Len(d.buf) = 0 THEN [d EXCEPT !.ret = 0]
  ELSE Let(HwWrite(d, o, d.buf), LAMBDA d1 :
         IF d1.ret # Len(d.buf)
         THEN [d1 EXCEPT !.ret = -1, !.resent = @ + d.passed, !.passed = Len(d.buf)]
         ELSE [d1 EXCEPT !.buf = <<>>, !.ret = 0, !.resent = @ + d.passed, !.passed = 0,
                         !.emptied = @ + 1])

\* The polls one FtdiDevice::Read sees: each poll offers n bytes (-1: read
\* error) and tells whether the 1 ms deadline has passed once it returned.
\* After the script every poll is empty and the deadline has passed.
ReadScript(o, idx, len) ==
  IF idx = o.rfAt THEN
    IF o.rfKind = "err" THEN <<[n |-> -1, expired |-> FALSE]>>
    ELSE IF o.rfKind = "timeout" THEN <<[n |-> 0, expired |-> TRUE]>>
    ELSE <<[n |-> 0, expired |-> FALSE], [n |-> 1, expired |-> FALSE],
           [n |-> len, expired |-> FALSE]>>
  ELSE <<[n |-> len, expired |-> FALSE]>>

\* Mutant of ReadLoop: ptr is not advanced, every delivery is stored at buf
RECURSIVE ReadLoop_NoAdvance(_, _, _, _)
ReadLoop_NoAdvance(d, len, script, got) ==
  LET p == IF script = <<>> THEN [n |-> 0, expired |-> TRUE] ELSE Head(script)
      rest == IF script = <<>> THEN <<>> ELSE Tail(script)
      chunk == IF p.n < 0 THEN <<>> ELSE Take(d.rxq, Min(p.n, len))
      read == IF p.n < 0 THEN p.n ELSE Len(chunk)
      d1 == [d EXCEPT !.rxq = Drop(@, Len(chunk)), !.rx = chunk \o Drop(got, Len(chunk)),
                      !.polls = Append(@, [asked |-> len, ret |-> read, data |-> chunk])]
  IN IF read = 0 THEN
       IF p.expired THEN [d1 EXCEPT !.ret = -1, !.why = "timeout"]
       ELSE ReadLoop_NoAdvance(d1, len, rest, got)
     ELSE IF read < 0 THEN [d1 EXCEPT !.ret = -1, !.why = "error"]
     ELSE IF len - read < 0 THEN [d1 EXCEPT !.ret = -1, !.why = "toomany"]
     ELSE IF len - read = 0 THEN [d1 EXCEPT !.ret = 0, !.why = "ok"]
     ELSE IF p.expired THEN [d1 EXCEPT !.ret = -1, !.why = "timeout"]
     ELSE ReadLoop_NoAdvance(d1, len - read, rest, chunk \o Drop(got, Len(chunk)))

\* Mutant of ReadLoop: every poll asks for all the bytes of the call
RECURSIVE ReadLoop_AskAll(_, _, _, _)
ReadLoop_AskAll(d, len, script, got) ==
  LET p == IF script = <<>> THEN [n |-> 0, expired |-> TRUE] ELSE Head(script)
      rest == IF script = <<>> THEN <<>> ELSE Tail(script)
      chunk == IF p.n < 0 THEN <<>> ELSE Take(d.rxq, Min(p.n, len + Len(got)))
      read == IF p.n < 0 THEN p.n ELSE Len(chunk)
      d1 == [d EXCEPT !.rxq = Drop(@, Len(chunk)), !.rx = got \o chunk,
                      !.polls = Append(@, [asked |-> len + Len(got), ret |-> read,
                                           data |-> chunk])]
  IN IF read = 0 THEN
       IF p.expired THEN [d1 EXCEPT !.ret = -1, !.why = "timeout"]
       ELSE ReadLoop_AskAll(d1, len, rest, got)
     ELSE IF read < 0 THEN [d1 EXCEPT !.ret = -1, !.why = "error"]
     ELSE IF len - read < 0 THEN [d1 EXCEPT !.ret = -1, !.why = "toomany"]
     ELSE IF len - read = 0 THEN [d1 EXCEPT !.ret = 0, !.why = "ok"]
     ELSE IF p.expired THEN [d1 EXCEPT !.ret = -1, !.why = "timeout"]
     ELSE ReadLoop_AskAll(d1, len - read, rest, got \o chunk)

\* The do/while loop of FtdiDevice::Read; got = bytes stored at buf so far
RECURSIVE ReadLoop(_, _, _, _)
ReadLoop(d, len, script, got) ==
  LET p == IF script = <<>> THEN [n |-> 0, expired |-> TRUE] ELSE Head(script)
      rest == IF script = <<>> THEN <<>> ELSE Tail(script)
      \* ftdi_read_data(context_, ptr, len)
      chunk == IF p.n < 0 THEN <<>> ELSE Take(d.rxq, Min(p.n, len))
      read == IF p.n < 0 THEN p.n ELSE Len(chunk)
      d1 == [d EXCEPT !.rxq = Drop(@, Len(chunk)), !.rx = got \o chunk,
                      !.polls = Append(@, [asked |-> len, ret |-> read, data |-> chunk])]
  IN IF read = 0 THEN
       IF p.expired THEN [d1 EXCEPT !.ret = -1, !.why = "timeout"]
       ELSE ReadLoop(d1, len, rest, got)
     ELSE IF read < 0 THEN [d1 EXCEPT !.ret = -1, !.why = "error"]
     ELSE IF len - read < 0 THEN [d1 EXCEPT !.ret = -1, !.why = "toomany"]
     ELSE IF len - read = 0 THEN [d1 EXCEPT !.ret = 0, !.why = "ok"]
     ELSE IF p.expired THEN [d1 EXCEPT !.ret = -1, !.why = "timeout"]
     ELSE ReadLoop(d1, len - read, rest, got \o chunk)

Read(d, o, len) ==
  Let(ReadLoop(d, len, ReadScript(o, Len(d.reads) + 1, len), <<>>), LAMBDA d1 :
    [d1 EXCEPT !.reads = Append(@, [len |-> len, ret |-> d1.ret, why |-> d1.why,
                                    data |-> d1.rx])])

MpsseSetLowerPins(d, o, state, dir) ==
  Let(BufferBytes(d, <<SET_BITS_LOW, state, dir>>), LAMBDA d1 :
    IF d1.ret # 0 THEN [d1 EXCEPT !.ret = -1]
    ELSE Let(BufferFlush(d1, o), LAMBDA d2 :
           IF d2.ret # 0 THEN [d2 EXCEPT !.ret = -1]
           ELSE [d2 EXCEPT !.ret = 0]))

\* MpsseSync: the two bad commands and the echo the chip answers them with;
\* the uint32 in_data is kept as its four bytes, most significant first
SyncOut == <<171, 170>>

SyncPattern == <<BAD_COMMAND, 171, BAD_COMMAND, 170>>

kBufSize == 256

\* Mutant of Slide: each read starts the window anew
Slide_Anew(in_data, buf, i) ==
  [k \in 1..4 |-> IF k + Min(Len(buf), 4) > 4 THEN buf[k + Min(Len(buf), 4) - 4] ELSE 0]

\* in_data = (in_data << 8) | buf[i]  for i < fmin(ret, 4)
RECURSIVE Slide(_, _, _)
Slide(in_data, buf, i) ==
  IF i >= Min(Len(buf), 4) THEN in_data
  ELSE Slide(Tail(in_data) \o <<buf[i + 1]>>, buf, i + 1)

\* The while (true) loop of MpsseSync.  polls is what the environment does at
\* each turn that starts within 10 ms: t is "settle" (elapsed <= 100 us) or
\* "open" (100 us < elapsed <= 10 ms), n the number of bytes ftdi_read_data
\* has ready (-1: it fails).  After polls, elapsed is beyond 10 ms.
RECURSIVE SyncLoop(_, _)
SyncLoop(d, polls) ==
  IF polls = <<>> THEN d
  ELSE IF Head(polls).t = "open" /\ d.in_data = SyncPattern THEN d
  ELSE IF Head(polls).n < 0
    THEN [d EXCEPT !.why = "error",
                   !.polls = Append(@, [t |-> Head(polls).t, ret |-> -1, data |-> <<>>])]
  ELSE Let(Take(d.rxq, Min(Head(polls).n, kBufSize)), LAMBDA buf :
         SyncLoop([d EXCEPT !.rxq = Drop(@, Len(buf)),
                            !.in_data = Slide(@, buf, 0),
                            !.polls = Append(@, [t |-> Head(polls).t, ret |-> Len(buf),
                                                 data |-> buf])],
                  Tail(polls)))

\* Mutant of MpsseSync: the result of the write is not looked at
MpsseSync_WriteUnchecked(d, o, polls) ==
  Let(HwWrite(d, o, SyncOut), LAMBDA d1 :
    Let(SyncLoop(d1, polls), LAMBDA d2 :
      IF d2.why = "error" THEN [d2 EXCEPT !.ret = -1]
      ELSE IF d2.in_data # SyncPattern THEN [d2 EXCEPT !.ret = -1]
      ELSE [d2 EXCEPT !.ret = 0]))

MpsseSync(d, o, polls) ==
  Let(HwWrite(d, o, SyncOut), LAMBDA d1 :
    IF d1.ret # 2 THEN [d1 EXCEPT !.ret = -1]
    ELSE Let(SyncLoop(d1, polls), LAMBDA d2 :
           IF d2.why = "error" THEN [d2 EXCEPT !.ret = -1]
           ELSE IF d2.in_data # SyncPattern THEN [d2 EXCEPT !.ret = -1]
           ELSE [d2 EXCEPT !.ret = 0]))

\* The float khz is the fraction khz.n / khz.q of whole numbers, q > 0.
\* 60000.0 / (three_phase ? khz * 1.5 : khz) / 2 is HalfBase * q / n
HalfBase(three_phase) == IF three_phase THEN 20000 ELSE 30000

\* divisor + 1 = 2 * (ClockWhole + ClockRest / n); the halves keep 32 bits enough
ClockWhole(khz, three_phase) == ((HalfBase(three_phase) \div 2) * khz.q) \div khz.n

ClockRest(khz, three_phase) == ((HalfBase(three_phase) \div 2) * khz.q) % khz.n

\* float divisor = ...: the quotient is computed in double and narrowed to
\* float, the nearest value with 24 significant bits, ties to even.  The
\* divisor is whole + rest / n with 0 <= rest < n.
DivisorWhole(khz, three_phase) ==
  2 * ClockWhole(khz, three_phase) - 1 + (2 * ClockRest(khz, three_phase)) \div khz.n

DivisorRest(khz, three_phase) == (2 * ClockRest(khz, three_phase)) % khz.n

\* The float nearest to 2^31 - 64 and beyond is 2^31 or more, which is no int
DivisorFitsInt(khz, three_phase) ==
  \/ ClockWhole(khz, three_phase) < 2 ^ 30 - 32
  \/ /\ ClockWhole(khz, three_phase) = 2 ^ 30 - 32
     /\ 2 * ClockRest(khz, three_phase) < khz.n

\* The first k binary digits t of rest / n and what is left of it: r / n
RECURSIVE FracBits(_, _, _)
FracBits(rest, n, k) ==
  IF k = 0 THEN [t |-> 0, r |-> rest]
  ELSE Let(FracBits(rest, n, k - 1), LAMBDA p :
         [t |-> 2 * p.t + (2 * p.r) \div n, r |-> (2 * p.r) % n])

\* The float nearest to rest / n, a value below 1, is 1/2 or more: the
\* floats below 1/2 end at 1/2 - 2^-25
HalfAsFloat(rest, n) == n - 2 * rest <= n \div 2 ^ 25

\* std::round of the float nearest to whole + rest / n, for 1 <= whole < 2^23:
\* the float keeps 23 - e binary digits behind the point, 2^e <= whole
RoundSmall(whole, rest, n) ==
  Let(23 - (CHOOSE e \in 0..22 : whole \div 2 ^ e = 1), LAMBDA k :
    Let(FracBits(rest, n, k), LAMBDA p :
      Let(p.t + (IF 2 * p.r > n \/ (2 * p.r = n /\ p.t % 2 = 1) THEN 1 ELSE 0), LAMBDA m :
        whole + (IF 2 * m >= 2 ^ k THEN 1 ELSE 0))))

\* The float nearest to whole + rest / n for whole >= 2^23, a multiple of
\* g = 2^(e - 23); it is a whole number, and std::round leaves it as it is
RoundLarge(whole, rest, n) ==
  Let(2 ^ ((CHOOSE e \in 23..30 : whole \div 2 ^ e = 1) - 23), LAMBDA g :
    Let(whole % g, LAMBDA low :
      Let(IF 2 * low > g \/ (2 * low = g /\ rest > 0) THEN 1
          ELSE IF 2 * low = g THEN ((whole - low) \div g) % 2
          ELSE IF g = 1 /\ (2 * rest > n \/ (2 * rest = n /\ whole % 2 = 1)) THEN 1
          ELSE 0, LAMBDA up :
        whole - low + up * g)))

\* std::round(divisor), halves away from zero, for a divisor that fits int
RoundDivisor(khz, three_phase) ==
  Let(DivisorWhole(khz, three_phase), LAMBDA whole :
    Let(DivisorRest(khz, three_phase), LAMBDA rest :
      IF whole < 0 THEN (IF HalfAsFloat(khz.n - rest, khz.n) THEN -1 ELSE 0)
      ELSE IF whole = 0 THEN (IF HalfAsFloat(rest, khz.n) THEN 1 ELSE 0)
      ELSE IF whole < 2 ^ 23 THEN RoundSmall(whole, rest, khz.n)
      ELSE RoundLarge(whole, rest, khz.n)))

\* int div = std::round(divisor) for a float beyond int is undefined: the
\* conversion yields the smallest int (x86) or the largest (saturating)
ConvOutcomes == {-2147483647 - 1, 2147483647}

\* div of MpsseSetClockFreq, clamped to 0 .. 0xffff; conv is what the
\* conversion to int yields when the rounded divisor does not fit
ClockDiv(khz, three_phase, conv) ==
  Let(IF DivisorFitsInt(khz, three_phase) THEN RoundDivisor(khz, three_phase) ELSE conv,
      LAMBDA div : IF div < 0 THEN 0 ELSE IF div > 65535 THEN 65535 ELSE div)

\* actual_khz = 60000.0 / ((div + 1) * 2), then / 3 * 2 with three_phase
ActualKhz(div, three_phase) ==
  IF three_phase THEN [num |-> 60000 * 2, den |-> (div + 1) * 2 * 3]
  ELSE [num |-> 60000, den |-> (div + 1) * 2]

\* ret |= r;  for return values 0 and -1
OrRet(ret, d) == [d EXCEPT !.ret = IF ret # 0 \/ d.ret # 0 THEN -1 ELSE 0]

\* Mutant of MpsseSetClockFreq: the buffer is cleared before khz is looked at
MpsseSetClockFreq_ClearFirst(d, o, khz, three_phase, adaptive, conv) ==
  IF khz.n <= 0 THEN [BufferClear(d) EXCEPT !.ret = -1]
  ELSE
  Let(ClockDiv(khz, three_phase, conv), LAMBDA div :
  Let([BufferClear(d) EXCEPT !.ret = 0, !.div = div,
                             !.actual = ActualKhz(div, three_phase)], LAMBDA d0 :
  Let(OrRet(d0.ret, BufferByte(d0, IF three_phase THEN EN_3_PHASE ELSE DIS_3_PHASE)), LAMBDA d1 :
  Let(OrRet(d1.ret, BufferByte(d1, IF adaptive THEN EN_ADAPTIVE ELSE DIS_ADAPTIVE)), LAMBDA d2 :
  Let(OrRet(d2.ret, BufferByte(d2, DIS_DIV_5)), LAMBDA d3 :
  Let(OrRet(d3.ret, BufferBytes(d3, <<TCK_DIVISOR, div % 256, (div \div 256) % 256>>)),
      LAMBDA d4 : OrRet(d4.ret, BufferFlush(d4, o))))))))

\* Mutant of MpsseSetClockFreq: a clamped divisor is rejected
MpsseSetClockFreq_RejectClamped(d, o, khz, three_phase, adaptive, conv) ==
  IF khz.n <= 0 THEN [d EXCEPT !.ret = -1]
  ELSE IF ~DivisorFitsInt(khz, three_phase) \/ RoundDivisor(khz, three_phase) > 65535
    THEN [d EXCEPT !.ret = -1]
  ELSE
  Let(ClockDiv(khz, three_phase, conv), LAMBDA div :
  Let([BufferClear(d) EXCEPT !.ret = 0, !.div = div,
                             !.actual = ActualKhz(div, three_phase)], LAMBDA d0 :
  Let(OrRet(d0.ret, BufferByte(d0, IF three_phase THEN EN_3_PHASE ELSE DIS_3_PHASE)), LAMBDA d1 :
  Let(OrRet(d1.ret, BufferByte(d1, IF adaptive THEN EN_ADAPTIVE ELSE DIS_ADAPTIVE)), LAMBDA d2 :
  Let(OrRet(d2.ret, BufferByte(d2, DIS_DIV_5)), LAMBDA d3 :
  Let(OrRet(d3.ret, BufferBytes(d3, <<TCK_DIVISOR, div % 256, (div \div 256) % 256>>)),
      LAMBDA d4 : OrRet(d4.ret, BufferFlush(d4, o))))))))

\* Mutant of MpsseSetClockFreq: the bytes pending in the buffer are kept
MpsseSetClockFreq_KeepPending(d, o, khz, three_phase, adaptive, conv) ==
  IF khz.n <= 0 THEN [d EXCEPT !.ret = -1]
  ELSE
  Let(ClockDiv(khz, three_phase, conv), LAMBDA div :
  Let([d EXCEPT !.ret = 0, !.div = div,
                !.actual = ActualKhz(div, three_phase)], LAMBDA d0 :
  Let(OrRet(d0.ret, BufferByte(d0, IF three_phase THEN EN_3_PHASE ELSE DIS_3_PHASE)), LAMBDA d1 :
  Let(OrRet(d1.ret, BufferByte(d1, IF adaptive THEN EN_ADAPTIVE ELSE DIS_ADAPTIVE)), LAMBDA d2 :
  Let(OrRet(d2.ret, BufferByte(d2, DIS_DIV_5)), LAMBDA d3 :
  Let(OrRet(d3.ret, BufferBytes(d3, <<TCK_DIVISOR, div % 256, (div \div 256) % 256>>)),
      LAMBDA d4 : OrRet(d4.ret, BufferFlush(d4, o))))))))

\* div and actual are what the printf reports
MpsseSetClockFreq(d, o, khz, three_phase, adaptive, conv) ==
  IF khz.n <= 0 THEN [d EXCEPT !.ret = -1]
  ELSE
  Let(ClockDiv(khz, three_phase, conv), LAMBDA div :
  Let([BufferClear(d) EXCEPT !.ret = 0, !.div = div,
                             !.actual = ActualKhz(div, three_phase)], LAMBDA d0 :
  Let(OrRet(d0.ret, BufferByte(d0, IF three_phase THEN EN_3_PHASE ELSE DIS_3_PHASE)), LAMBDA d1 :
  Let(OrRet(d1.ret, BufferByte(d1, IF adaptive THEN EN_ADAPTIVE ELSE DIS_ADAPTIVE)), LAMBDA d2 :
  Let(OrRet(d2.ret, BufferByte(d2, DIS_DIV_5)), LAMBDA d3 :
  Let(OrRet(d3.ret, BufferBytes(d3, <<TCK_DIVISOR, div % 256, (div \div 256) % 256>>)),
      LAMBDA d4 : OrRet(d4.ret, BufferFlush(d4, o))))))))

-----------------------------------------------------------------------------
(* MpsseI2c *)

Logged(d, name, arg) == [d EXCEPT !.ops = Append(@, [op |-> name, arg |-> arg, ret |-> d.ret])]

\* Mutant of Addr7ToData: the read/write bit is left out
Addr7ToData_NoRw(addr7, is_read) == (addr7 * 2) % 256

Addr7ToData(addr7, is_read) == ((addr7 * 2) % 256) + (IF is_read THEN 1 ELSE 0)

\* Pin values <<state, dir>> written by the steps of each bus condition
StartSteps == << <<1, 3>>, <<0, 3>> >>

\* Mutant of RestartSteps: SDA and SCL are raised by one command
RestartSteps_Merged == << <<3, 3>>, <<3, 3>>, <<1, 3>>, <<0, 3>> >>

RestartSteps == << <<2, 3>>, <<3, 3>>, <<1, 3>>, <<0, 3>> >>

StopSteps == << <<1, 3>>, <<3, 3>> >>

\* if (dev_->MpsseSetLowerPins(state, dir)) return -1;  for each step in turn
RECURSIVE PinSteps(_, _, _)
PinSteps(d, o, steps) ==
  IF steps = <<>> THEN [d EXCEPT !.ret = 0]
  ELSE Let(MpsseSetLowerPins(d, o, Head(steps)[1], Head(steps)[2]), LAMBDA d1 :
         IF d1.ret # 0 THEN [d1 EXCEPT !.ret = -1]
         ELSE PinSteps(d1, o, Tail(steps)))

Start(d, o) == Logged(PinSteps(d, o, StartSteps), "Start", 0)

Restart(d, o) == Logged(PinSteps(d, o, RestartSteps), "Restart", 0)

Stop(d, o) == Logged(PinSteps(d, o, StopSteps), "Stop", 0)

\* Mutant of WriteByteCmds: SDA is not taken back after the acknowledge bit
WriteByteCmds_NoRedrive(data) ==
  << MPSSE_IDLE_LOW_WRITE + MPSSE_BITMODE, 7, data,
     SET_BITS_LOW, 0, 1,
     MPSSE_IDLE_LOW_READ + MPSSE_BITMODE, 0,
     SEND_IMMEDIATE >>

WriteByteCmds(data) ==
  << MPSSE_IDLE_LOW_WRITE + MPSSE_BITMODE, 7, data,
     SET_BITS_LOW, 0, 1,
     MPSSE_IDLE_LOW_READ + MPSSE_BITMODE, 0,
     SEND_IMMEDIATE,
     SET_BITS_LOW, 0, 3 >>

\* Mutant of WriteByteBody: the whole response byte is compared with 0
WriteByteBody_AckIfZero(d, o, data) ==
  Let(BufferBytes(d, WriteByteCmds(data)), LAMBDA d1 :
    IF d1.ret # 0 THEN [d1 EXCEPT !.ret = -1]
    ELSE Let(BufferFlush(d1, o), LAMBDA d2 :
           IF d2.ret # 0 THEN [d2 EXCEPT !.ret = -1]
           ELSE Let(Read(d2, o, 1), LAMBDA d3 :
                  IF d3.ret # 0 THEN [d3 EXCEPT !.ret = -1]
                  ELSE [d3 EXCEPT !.ret = IF d3.rx[1] # 0 THEN 0 ELSE 1])))

\* Returns 1 if ACK, 0 if NACK, -1 if an error occurs
WriteByteBody(d, o, data) ==
  Let(BufferBytes(d, WriteByteCmds(data)), LAMBDA d1 :
    IF d1.ret # 0 THEN [d1 EXCEPT !.ret = -1]
    ELSE Let(BufferFlush(d1, o), LAMBDA d2 :
           IF d2.ret # 0 THEN [d2 EXCEPT !.ret = -1]
           ELSE Let(Read(d2, o, 1), LAMBDA d3 :
                  IF d3.ret # 0 THEN [d3 EXCEPT !.ret = -1]
                  ELSE [d3 EXCEPT !.ret = IF Bit(d3.rx[1], 0) = 1 THEN 0 ELSE 1])))

WriteByte(d, o, data) == Logged(WriteByteBody(d, o, data), "WriteByte", data)

\* Mutant of ReadByteCmds: every byte, the last one too, is answered with ACK
ReadByteCmds_AckAll(i, len) ==
  << <<SET_BITS_LOW, 0, 1>>,
     <<MPSSE_IDLE_LOW_READ + MPSSE_BITMODE, 7>>,
     <<SET_BITS_LOW, 0, 3>>,
     <<MPSSE_IDLE_LOW_WRITE + MPSSE_BITMODE + MPSSE_LSB, 0, 0>> >>

\* The four appends of iteration i (0-based) of the loop of ReadBytes
ReadByteCmds(i, len) ==
  << <<SET_BITS_LOW, 0, 1>>,
     <<MPSSE_IDLE_LOW_READ + MPSSE_BITMODE, 7>>,
     <<SET_BITS_LOW, 0, 3>>,
     <<MPSSE_IDLE_LOW_WRITE + MPSSE_BITMODE + MPSSE_LSB, 0, IF i = len - 1 THEN 1 ELSE 0>> >>

\* err = dev_->BufferBytes(x); if (err) return -1;  for each x of parts
RECURSIVE BufferParts(_, _)
BufferParts(d, parts) ==
  IF parts = <<>> THEN [d EXCEPT !.ret = 0]
  ELSE Let(BufferBytes(d, Head(parts)), LAMBDA d1 :
         IF d1.ret # 0 THEN [d1 EXCEPT !.ret = -1]
         ELSE BufferParts(d1, Tail(parts)))

\* for (int i = 0; i < len; ++i) { ... }
RECURSIVE ReadBytesLoop(_, _, _)
ReadBytesLoop(d, i, len) ==
  IF i >= len THEN [d EXCEPT !.ret = 0]
  ELSE Let(BufferParts(d, ReadByteCmds(i, len)), LAMBDA d1 :
         IF d1.ret # 0 THEN d1
         ELSE ReadBytesLoop(d1, i + 1, len))

\* Mutant of ReadBytesBody: one response byte is read back, as in WriteByte
ReadBytesBody_ReadOne(d, o, len) ==
  IF len = 0 THEN [d EXCEPT !.ret = 0]
  ELSE Let(ReadBytesLoop(d, 0, len), LAMBDA d1 :
         IF d1.ret # 0 THEN [d1 EXCEPT !.ret = -1]
         ELSE Let(BufferByte(d1, SEND_IMMEDIATE), LAMBDA d2 :
                IF d2.ret # 0 THEN [d2 EXCEPT !.ret = -1]
                ELSE Let(BufferFlush(d2, o), LAMBDA d3 :
                       IF d3.ret # 0 THEN [d3 EXCEPT !.ret = -1]
                       ELSE Let(Read(d3, o, 1), LAMBDA d4 :
                              IF d4.ret # 0 THEN [d4 EXCEPT !.ret = -1]
                              ELSE [d4 EXCEPT !.ret = 0, !.rxbuf = d4.rx]))))

\* Mutant of ReadBytesBody: len = 0 is not returned early
ReadBytesBody_ZeroFlushed(d, o, len) ==
  Let(ReadBytesLoop(d, 0, len), LAMBDA d1 :
    IF d1.ret # 0 THEN [d1 EXCEPT !.ret = -1]
    ELSE Let(BufferByte(d1, SEND_IMMEDIATE), LAMBDA d2 :
           IF d2.ret # 0 THEN [d2 EXCEPT !.ret = -1]
           ELSE Let(BufferFlush(d2, o), LAMBDA d3 :
                  IF d3.ret # 0 THEN [d3 EXCEPT !.ret = -1]
                  ELSE Let(Read(d3, o, len), LAMBDA d4 :
                         IF d4.ret # 0 THEN [d4 EXCEPT !.ret = -1]
                         ELSE [d4 EXCEPT !.ret = 0, !.rxbuf = d4.rx]))))

ReadBytesBody(d, o, len) ==
  IF len = 0 THEN [d EXCEPT !.ret = 0]
  ELSE Let(ReadBytesLoop(d, 0, len), LAMBDA d1 :
         IF d1.ret # 0 THEN [d1 EXCEPT !.ret = -1]
         ELSE Let(BufferByte(d1, SEND_IMMEDIATE), LAMBDA d2 :
                IF d2.ret # 0 THEN [d2 EXCEPT !.ret = -1]
                ELSE Let(BufferFlush(d2, o), LAMBDA d3 :
                       IF d3.ret # 0 THEN [d3 EXCEPT !.ret = -1]
                       ELSE Let(Read(d3, o, len), LAMBDA d4 :
                              IF d4.ret # 0 THEN [d4 EXCEPT !.ret = -1]
                              ELSE [d4 EXCEPT !.ret = 0, !.rxbuf = d4.rx]))))

\* The parameter is uint16_t: the argument is converted modulo 2^16
ReadBytes(d, o, len) == Logged(ReadBytesBody(d, o, len % 65536), "ReadBytes", len % 65536)

\* for (int i = 0; i < tx_len; ++i) { ack = WriteByte(tx_data[i]); ... }
RECURSIVE WriteData(_, _, _, _, _)
WriteData(d, o, tx_data, i, tx_len) ==
  IF i >= tx_len THEN [d EXCEPT !.ret = 1]
  ELSE Let(WriteByte(d, o, tx_data[i + 1]), LAMBDA d1 :
         IF d1.ret < 0 THEN [d1 EXCEPT !.ret = -1]
         ELSE IF d1.ret = 0 THEN [d1 EXCEPT !.ret = -2]
         ELSE WriteData(d1, o, tx_data, i + 1, tx_len))

\* The read phase: read-address byte, then ReadBytes
ReadPhase(d, o, addr7, rx_len) ==
  Let(WriteByte(d, o, Addr7ToData(addr7, TRUE)), LAMBDA d1 :
    IF d1.ret < 0 THEN [d1 EXCEPT !.ret = -1]
    ELSE IF d1.ret = 0 THEN [d1 EXCEPT !.ret = -2]
    ELSE IF rx_len = 0 THEN [d1 EXCEPT !.ret = 0]
    ELSE Let(ReadBytes(d1, o, rx_len), LAMBDA d2 :
           [d2 EXCEPT !.ret = IF d2.ret # 0 THEN -1 ELSE 0]))

\* Mutant of TransactionBody: a NACK of the write-address byte is not checked
TransactionBody_AddrNackIgnored(d, o, addr7, tx_data, tx_len, rx_len) ==
  IF tx_len > 0 THEN
    Let(WriteByte(d, o, Addr7ToData(addr7, FALSE)), LAMBDA d1 :
      IF d1.ret < 0 THEN [d1 EXCEPT !.ret = -1]
      ELSE Let(WriteData(d1, o, tx_data, 0, tx_len), LAMBDA d2 :
             IF d2.ret < 0 THEN d2
             ELSE IF rx_len = 0 THEN [d2 EXCEPT !.ret = 0]
             ELSE ReadPhase(Restart(d2, o), o, addr7, rx_len)))
  ELSE ReadPhase(d, o, addr7, rx_len)

\* Mutant of TransactionBody: the read phase follows the data without Restart
TransactionBody_NoRestart(d, o, addr7, tx_data, tx_len, rx_len) ==
  IF tx_len > 0 THEN
    Let(WriteByte(d, o, Addr7ToData(addr7, FALSE)), LAMBDA d1 :
      IF d1.ret < 0 THEN [d1 EXCEPT !.ret = -1]
      ELSE IF d1.ret = 0 THEN [d1 EXCEPT !.ret = -2]
      ELSE Let(WriteData(d1, o, tx_data, 0, tx_len), LAMBDA d2 :
             IF d2.ret < 0 THEN d2
             ELSE IF rx_len = 0 THEN [d2 EXCEPT !.ret = 0]
             ELSE ReadPhase(d2, o, addr7, rx_len)))
  ELSE ReadPhase(d, o, addr7, rx_len)

\* Everything between Start() and the return statement
TransactionBody(d, o, addr7, tx_data, tx_len, rx_len) ==
  IF tx_len > 0 THEN
    Let(WriteByte(d, o, Addr7ToData(addr7, FALSE)), LAMBDA d1 :
      IF d1.ret < 0 THEN [d1 EXCEPT !.ret = -1]
      ELSE IF d1.ret = 0 THEN [d1 EXCEPT !.ret = -2]
      ELSE Let(WriteData(d1, o, tx_data, 0, tx_len), LAMBDA d2 :
             IF d2.ret < 0 THEN d2
             ELSE IF rx_len = 0 THEN [d2 EXCEPT !.ret = 0]
             ELSE ReadPhase(Restart(d2, o), o, addr7, rx_len)))
  ELSE ReadPhase(d, o, addr7, rx_len)

\* stop_on_exit: Stop() runs when the function returns; its result is dropped
StopOnExit(d, o) == [Stop(d, o) EXCEPT !.ret = d.ret]

\* Mutant of Transaction: the lengths are looked at after Start()
Transaction_StartFirst(d, o, addr7, tx_data, tx_len, rx_len) ==
  Let(Start(d, o), LAMBDA d0 :
    IF tx_len < 0 \/ rx_len < 0 THEN [d0 EXCEPT !.ret = -1]
    ELSE StopOnExit(TransactionBody(d0, o, addr7, tx_data, tx_len, rx_len), o))

Transaction(d, o, addr7, tx_data, tx_len, rx_len) ==
  IF tx_len < 0 \/ rx_len < 0 THEN [d EXCEPT !.ret = -1]
  ELSE StopOnExit(TransactionBody(Start(d, o), o, addr7, tx_data, tx_len, rx_len), o)

\* InitializePins: both lines driven high
InitializePins(d, o) == MpsseSetLowerPins(BufferClear(d), o, 3, 3)

\* ftdi_set_bitmode(context, 0xff, mode) of libftdi: err is what it returns;
\* the chip changes its mode when the request succeeds.  BITMODE_RESET resets
\* the command processor, which drops a latched partial command;
\* BITMODE_MPSSE on a chip that is in MPSSE mode keeps it
Bitmode(d, mode, err) ==
  [d EXCEPT !.ret = err,
            !.mode = IF err = 0 THEN mode ELSE @,
            !.pend = IF err = 0 /\ mode = "reset" THEN <<>> ELSE @,
            !.modes = Append(@, [mode |-> mode, ret |-> err])]

\* ftdi_set_bitmode(dev->context(), 0xff, BITMODE_MPSSE)
SetBitmode(d, err) == Bitmode(d, "mpsse", err)

\* Mutant of Destructor: the object goes away without the reset
Destructor_NoReset(d, rst) == [d EXCEPT !.engine = FALSE]

\* MpsseI2c::~MpsseI2c: rst is what ftdi_set_bitmode returns; it is printed
Destructor(d, rst) == [Bitmode(d, "reset", rst) EXCEPT !.engine = FALSE, !.ret = d.ret]

\* RETURN_IF(err != 0, nullptr, ...) once the object exists: the unique_ptr
\* ret destroys it
Abandon(d, rst) == [Destructor(d, rst) EXCEPT !.ret = -1]

\* One step of Create in the log of the call, with the number of hardware
\* writes made when the step ended
Step(d, name) == Logged(d, name, Len(d.writes))

\* Mutant of Create: the result of MpsseSync is not looked at
Create_SyncUnchecked(d, o, scl_khz, err, polls, conv, rst) ==
  Let(Step(SetBitmode(d, err), "ftdi_set_bitmode"), LAMBDA d0 :
    IF d0.ret # 0 THEN [d0 EXCEPT !.ret = -1]
    ELSE Let(Step(MpsseSync([d0 EXCEPT !.engine = TRUE], o, polls), "MpsseSync"), LAMBDA d1 :
      Let(Step(MpsseSetClockFreq(d1, o, scl_khz, TRUE, FALSE, conv), "MpsseSetClockFreq"),
          LAMBDA d2 :
        IF d2.ret # 0 THEN Abandon(d2, rst)
        ELSE Let(Step(InitializePins(d2, o), "InitializePins"), LAMBDA d3 :
          IF d3.ret # 0 THEN Abandon(d3, rst)
          ELSE [d3 EXCEPT !.ret = 0]))))

\* MpsseI2c::Create: ret = 0 stands for the engine, ret = -1 for nullptr
Create(d, o, scl_khz, err, polls, conv, rst) ==
  Let(Step(SetBitmode(d, err), "ftdi_set_bitmode"), LAMBDA d0 :
    IF d0.ret # 0 THEN [d0 EXCEPT !.ret = -1]
    ELSE Let(Step(MpsseSync([d0 EXCEPT !.engine = TRUE], o, polls), "MpsseSync"), LAMBDA d1 :
      IF d1.ret # 0 THEN Abandon(d1, rst)
      ELSE Let(Step(MpsseSetClockFreq(d1, o, scl_khz, TRUE, FALSE, conv), "MpsseSetClockFreq"),
               LAMBDA d2 :
        IF d2.ret # 0 THEN Abandon(d2, rst)
        ELSE Let(Step(InitializePins(d2, o), "InitializePins"), LAMBDA d3 :
          IF d3.ret # 0 THEN Abandon(d3, rst)
          ELSE [d3 EXCEPT !.ret = 0]))))

-----------------------------------------------------------------------------
(* MpsseWs2812b.  Its implementation is not among the sources: the operators
   follow the declarations of mpsse_protocol.h and section 4.5 of the
   specification.  Bit sequences are written first bit first. *)

\* "0 code" is 0b100, "1 code" is 0b110
PulseCode(bit) == IF bit = 1 THEN <<1, 1, 0>> ELSE <<1, 0, 0>>

\* The codes of bits i .. 0 of byte, bit i first
RECURSIVE ExpandFrom(_, _)
ExpandFrom(byte, i) ==
  IF i < 0 THEN <<>> ELSE PulseCode(Bit(byte, i)) \o ExpandFrom(byte, i - 1)

\* Mutant of ExpandByte: the least significant bit is expanded first
ExpandByte_LsbFirst(byte) ==
  [k \in 1..24 |-> PulseCode(Bit(byte, (k - 1) \div 3))[((k - 1) % 3) + 1]]

\* Expand one byte to 3 bytes, most significant bit first
ExpandByte(byte) == ExpandFrom(byte, 7)

\* The bits are shifted out; no answer is read
SendRaw(d, bits) == Logged([d EXCEPT !.bits = @ \o bits, !.ret = 0], "SendRaw", Len(bits))

\* Mutant of PixelBits: the colours are sent red, green, blue
PixelBits_RGB(pixel) ==
  ExpandByte((pixel \div 65536) % 256) \o ExpandByte((pixel \div 256) % 256)
  \o ExpandByte(pixel % 256)

\* One pixel in GRB order; the top 8 bits are ignored, blue is in the LSB
PixelBits(pixel) ==
  ExpandByte((pixel \div 256) % 256) \o ExpandByte((pixel \div 65536) % 256)
  \o ExpandByte(pixel % 256)

RECURSIVE FrameBits(_)
FrameBits(pixels) ==
  IF pixels = <<>> THEN <<>> ELSE PixelBits(Head(pixels)) \o FrameBits(Tail(pixels))

SendFrame(d, pixels) == Logged(SendRaw(d, FrameBits(pixels)), "SendFrame", Len(pixels))

-----------------------------------------------------------------------------
(* Inputs *)

\* Largest count whose ReadBytes batch (11 bytes per byte, plus one) fits
BytesPerRead == Len(ReadByteCmds(0, 1)[1]) + Len(ReadByteCmds(0, 1)[2])
                + Len(ReadByteCmds(0, 1)[3]) + Len(ReadByteCmds(0, 1)[4])

MaxBatch == (kBufferSize - 1) \div BytesPerRead

Addrs == {24, 127, 200}

TxByte(i) == (5 + 159 * (i - 1)) % 256

TxData(n) == [i \in 1..n |-> TxByte(i)]

\* Upper bound of the hardware writes / reads one call of the model performs
MaxWrites == 2 + (MaxTxLen + 2) + 4 + 1 + 2

MaxReads == MaxTxLen + 3

\* Scripts without I/O fault: which acknowledge bit is a NACK, and the upper
\* bits of the acknowledge response byte
CleanEnvs ==
  {[wfAt |-> 0, wfKind |-> "fail", rfAt |-> r, rfKind |-> "split",
    nackAt |-> n, ackHi |-> h, seed |-> 90] :
      r \in 0..MaxReads, n \in 0..(MaxTxLen + 2), h \in {0, 254}}

\* Scripts used by the calls that follow a faulty call
AfterEnvs == {o \in CleanEnvs : o.nackAt <= 1 /\ o.ackHi = 0 /\ o.rfAt = 0}

WriteFaultEnvs ==
  {[wfAt |-> w, wfKind |-> k, rfAt |-> 0, rfKind |-> "err",
    nackAt |-> n, ackHi |-> 0, seed |-> 90] :
      w \in 1..MaxWrites, k \in {"fail", "short"}, n \in 0..1}

ReadFaultEnvs ==
  {[wfAt |-> 0, wfKind |-> "fail", rfAt |-> r, rfKind |-> k,
    nackAt |-> n, ackHi |-> 0, seed |-> 90] :
      r \in 1..MaxReads, k \in {"err", "timeout"}, n \in 0..1}

\* At most one call of a behaviour suffers an I/O fault
Envs == IF faulted \/ devCalls > 0 THEN AfterEnvs
        ELSE CleanEnvs \cup WriteFaultEnvs \cup ReadFaultEnvs

\* The full range of arguments is used with fault-free scripts before any fault
Full(o) == ~faulted /\ devCalls = 0 /\ o \in CleanEnvs

\* The script injected something into the call that produced world d
Injected(d, o) ==
  o.wfAt \in 1..Len(d.writes) \/ (o.rfAt \in 1..Len(d.reads) /\ o.rfKind # "split")

\* A script is used only by calls that reach the call it disturbs
Relevant(d, o) == (o.wfAt = 0 \/ o.wfAt <= Len(d.writes)) /\ (o.rfAt = 0 \/ o.rfAt <= Len(d.reads))

-----------------------------------------------------------------------------
(* State machine *)

NoCall == [op |-> "none", addr7 |-> 0, tx |-> <<>>, tx_len |-> 0, rx_len |-> 0, ret |-> 0,
           preScl |-> "high", preSda |-> "high", preClean |-> TRUE,
           writes |-> <<>>, reads |-> <<>>, wire |-> <<>>, ops |-> <<>>,
           rxbuf |-> <<>>, env |-> NoFault, data |-> 0,
           preBuf |-> <<>>, resent |-> 0, polls |-> <<>>, in_data |-> <<0, 0, 0, 0>>,
           script |-> <<>>, emptied |-> 0, preRxq |-> <<>>,
           khz |-> [n |-> 0, q |-> 1], div |-> 0, actual |-> [num |-> 0, den |-> 1],
           bits |-> <<>>, rst |-> 0, modes |-> <<>>]

\* The world a call starts in
World ==
  [buf |-> buffer, st |-> chip.st, dir |-> chip.dir, pend |-> chip.pend, rxq |-> chip.rxq,
   writes |-> <<>>, reads |-> <<>>, wire |-> <<>>, ops |-> <<>>,
   in |-> <<>>, ip |-> 1, passed |-> passed, resent |-> 0, emptied |-> 0,
   polls |-> <<>>, in_data |-> <<0, 0, 0, 0>>,
   nA |-> 0, nD |-> 0, ret |-> 0, why |-> "ok", rx |-> <<>>, rxbuf |-> <<>>,
   div |-> 0, actual |-> [num |-> 0, den |-> 1], bits |-> <<>>,
   mode |-> chip.mode, engine |-> engine, modes |-> <<>>]

\* The public operations of FtdiDevice
DevOps == {"BufferClear", "BufferByte", "BufferBytes", "BufferFlush", "Read",
           "MpsseSync", "MpsseSetClockFreq", "MpsseSetLowerPins"}

\* The call returns: the world d it produced becomes the state
Returns(d, o, call) ==
  /\ devCalls < MaxDevCalls
  /\ Relevant(d, o)
  /\ buffer' = d.buf
  /\ passed' = d.passed
  /\ devCalls' = IF devCalls > 0 \/ call.op \in DevOps \cup {"Create"} THEN devCalls + 1 ELSE 0
  /\ chip' = [st |-> d.st, dir |-> d.dir, pend |-> d.pend, rxq |-> d.rxq, mode |-> d.mode]
  /\ engine' = d.engine
  /\ last' = [call EXCEPT !.ret = d.ret,
                          !.preScl = SclLine(chip), !.preSda = SdaLine(chip),
                          !.preClean = (buffer = <<>> /\ chip.pend = <<>> /\ chip.rxq = <<>>),
                          !.writes = d.writes, !.reads = d.reads, !.wire = d.wire,
                          !.ops = d.ops, !.rxbuf = d.rxbuf,
                          !.preBuf = buffer, !.preRxq = chip.rxq,
                          !.resent = d.resent, !.emptied = d.emptied,
                          !.polls = d.polls, !.in_data = d.in_data,
                          !.div = d.div, !.actual = d.actual, !.bits = d.bits,
                          !.modes = d.modes,
                          !.env = [wfAt |-> o.wfAt, wfKind |-> o.wfKind,
                                   rfAt |-> o.rfAt, rfKind |-> o.rfKind]]
  /\ faulted' = (faulted \/ Injected(d, o))
  /\ after' = IF faulted THEN after + 1 ELSE 0
  /\ pc' = "returned"

\* State after MpsseI2c::Create succeeded: buffer empty, both lines driven high
Init ==
  /\ buffer = <<>>
  /\ chip = [st |-> 3, dir |-> 3, pend |-> <<>>, rxq |-> <<>>, mode |-> "mpsse"]
  /\ engine = TRUE
  /\ last = NoCall
  /\ chain = [phase |-> "off", n |-> 0]
  /\ faulted = FALSE
  /\ after = 0
  /\ pc = "idle"
  /\ passed = 0
  /\ devCalls = 0

CallStart ==
  /\ pc = "idle"
  /\ after < MaxAfter
  /\ \E o \in Envs :
       LET d == Start(World, o) IN
       /\ Returns(d, o, [NoCall EXCEPT !.op = "Start"])
       /\ chain' = IF BothHigh(chip) /\ d.ret = 0
                   THEN [phase |-> "open", n |-> 0] ELSE [phase |-> "off", n |-> 0]

CallRestart ==
  /\ pc = "idle"
  /\ after < MaxAfter
  /\ \E o \in Envs :
       LET d == Restart(World, o) IN
       /\ Returns(d, o, [NoCall EXCEPT !.op = "Restart"])
       /\ chain' = [phase |-> "off", n |-> 0]

CallStop ==
  /\ pc = "idle"
  /\ after < MaxAfter
  /\ \E o \in Envs :
       LET d == Stop(World, o) IN
       /\ Returns(d, o, [NoCall EXCEPT !.op = "Stop"])
       /\ chain' = IF chain.phase = "open" /\ d.ret = 0
                   THEN [phase |-> "closed", n |-> chain.n] ELSE [phase |-> "off", n |-> 0]

CallWriteByte ==
  /\ pc = "idle"
  /\ after < MaxAfter
  /\ \E o \in Envs, data \in {TxByte(1), TxByte(2)} :
       LET d == WriteByte(World, o, data) IN
       /\ Returns(d, o, [NoCall EXCEPT !.op = "WriteByte", !.data = data])
       /\ chain' = IF chain.phase = "open" /\ d.ret >= 0
                   THEN [phase |-> "open", n |-> Min(chain.n + 1, MaxChainBytes)]
                   ELSE [phase |-> "off", n |-> 0]

CallReadBytes ==
  /\ pc = "idle"
  /\ after < MaxAfter
  /\ \E o \in Envs :
     \E len \in (0..MaxRxSmall) \cup (IF Full(o) THEN {MaxBatch, MaxBatch + 1} ELSE {}) :
       LET d == ReadBytes(World, o, len) IN
       /\ Returns(d, o, [NoCall EXCEPT !.op = "ReadBytes", !.rx_len = len])
       /\ chain' = [phase |-> "off", n |-> 0]

CallTransaction ==
  /\ pc = "idle"
  /\ after < MaxAfter
  /\ \E o \in Envs :
     \E addr7 \in (IF Full(o) THEN Addrs ELSE {24}),
        tx_len \in (0..MaxTxLen) \cup (IF Full(o) THEN {-1} ELSE {}),
        rx_len \in (0..MaxRxSmall) \cup (IF Full(o) THEN {-1, MaxBatch, MaxBatch + 1} ELSE {}) :
       LET tx == TxData(IF tx_len < 0 THEN 0 ELSE tx_len)
           d == Transaction(World, o, addr7, tx, tx_len, rx_len)
       IN /\ Returns(d, o, [NoCall EXCEPT !.op = "Transaction", !.addr7 = addr7,
                                          !.tx = tx, !.tx_len = tx_len, !.rx_len = rx_len])
          /\ chain' = [phase |-> "off", n |-> 0]

\* Callers of FtdiDevice.  The hardware answers as asked, or the one
\* ftdi_write_data / FtdiDevice::Read of the call is disturbed
QuietEnv == [wfAt |-> 0, wfKind |-> "fail", rfAt |-> 0, rfKind |-> "split",
             nackAt |-> 0, ackHi |-> 0, seed |-> 90]

DevWriteEnvs ==
  {QuietEnv} \cup (IF faulted THEN {}
                   ELSE {[QuietEnv EXCEPT !.wfAt = 1, !.wfKind = k] : k \in {"fail", "short"}})

DevReadEnvs ==
  {QuietEnv, [QuietEnv EXCEPT !.rfAt = 1]}
  \cup (IF faulted THEN {}
        ELSE {[QuietEnv EXCEPT !.rfAt = 1, !.rfKind = k] : k \in {"err", "timeout"}})

Filler(n) == [i \in 1..n |-> SEND_IMMEDIATE]

\* Bytes the caller appends: nothing, a bad command, a pin command, a pin
\* command cut short, a read of two bytes, a shift-out of two bytes with one
\* of them, and blocks that fill the buffer or do not fit
DevBytes == {SyncOut[2], SEND_IMMEDIATE}

DevBlocks == {<<>>, <<SET_BITS_LOW, 0>>, <<SET_BITS_LOW, 3, 3>>,
              <<MPSSE_DO_READ, 1, 0>>, <<MPSSE_DO_WRITE, 1, 0, SyncOut[1]>>,
              Filler(kBufferSize - 2), Filler(kBufferSize), Filler(kBufferSize + 1)}

\* What the environment does during one MpsseSync
SyncSizes == {-1, 0, 2, kBufSize}

SyncTurns == [t : {"settle", "open"}, n : SyncSizes]

SyncScripts ==
  {p \in UNION {[1..k -> SyncTurns] : k \in 0..MaxPolls} :
     \A i \in 1..(Len(p) - 1) : p[i].t = "open" => p[i + 1].t = "open"}

\* Requested frequencies: none and below none, the usual bus speeds, speeds
\* near the base clock, speeds so low that the divisor is clamped or does not
\* fit int, and one whose divisor is no float (9668.4995...)
Khz(n, q) == [n |-> n, q |-> q]

KhzAll == {Khz(0, 1), Khz(-1, 1), Khz(1, 1), Khz(100, 1), Khz(400, 1), Khz(4011, 1),
           Khz(21000, 1), Khz(1, 4), Khz(1, 100000), Khz(2118, 1024)}

ClockInputs == IF ~faulted /\ devCalls = 0 THEN KhzAll ELSE {Khz(0, 1), Khz(400, 1)}

ConvChoices(khz, three_phase) ==
  IF khz.n > 0 /\ ~DivisorFitsInt(khz, three_phase) THEN ConvOutcomes ELSE {0}

DevReturns(d, o, call) ==
  /\ after < MaxAfter
  /\ Returns(d, o, call)
  /\ chain' = [phase |-> "off", n |-> 0]

CallBufferClear ==
  /\ pc = "idle"
  /\ DevReturns(BufferClear(World), QuietEnv, [NoCall EXCEPT !.op = "BufferClear"])

CallBufferByte ==
  /\ pc = "idle"
  /\ \E data \in DevBytes :
       DevReturns(BufferByte(World, data), QuietEnv,
                  [NoCall EXCEPT !.op = "BufferByte", !.tx = <<data>>])

CallBufferBytes ==
  /\ pc = "idle"
  /\ \E data \in DevBlocks :
       DevReturns(BufferBytes(World, data), QuietEnv,
                  [NoCall EXCEPT !.op = "BufferBytes", !.tx = data])

CallBufferFlush ==
  /\ pc = "idle"
  /\ \E o \in DevWriteEnvs :
       DevReturns(BufferFlush(World, o), o, [NoCall EXCEPT !.op = "BufferFlush"])

CallRead ==
  /\ pc = "idle"
  /\ \E o \in DevReadEnvs, len \in 0..MaxRxSmall :
       DevReturns(Read(World, o, len), o, [NoCall EXCEPT !.op = "Read", !.rx_len = len])

CallMpsseSync ==
  /\ pc = "idle"
  /\ \E o \in DevWriteEnvs, polls \in SyncScripts :
       DevReturns(MpsseSync(World, o, polls), o,
                  [NoCall EXCEPT !.op = "MpsseSync", !.script = polls])

CallMpsseSetClockFreq ==
  /\ pc = "idle"
  /\ \E o \in DevWriteEnvs, khz \in ClockInputs, three_phase \in BOOLEAN, adaptive \in BOOLEAN :
     \E conv \in ConvChoices(khz, three_phase) :
       DevReturns(MpsseSetClockFreq(World, o, khz, three_phase, adaptive, conv), o,
                  [NoCall EXCEPT !.op = "MpsseSetClockFreq", !.khz = khz,
                                 !.tx = <<three_phase, adaptive>>])

CallMpsseSetLowerPins ==
  /\ pc = "idle"
  /\ \E o \in DevWriteEnvs, pins \in {<<3, 3>>, <<0, 3>>} :
       DevReturns(MpsseSetLowerPins(World, o, pins[1], pins[2]), o,
                  [NoCall EXCEPT !.op = "MpsseSetLowerPins", !.tx = pins])

\* The caller has taken the result; the next call may be made
Return ==
  /\ pc = "returned"
  /\ pc' = "idle"
  /\ last' = NoCall
  /\ UNCHANGED <<buffer, chip, chain, faulted, after, passed, devCalls, engine>>

Next ==
  \/ CallStart
  \/ CallRestart
  \/ CallStop
  \/ CallWriteByte
  \/ CallReadBytes
  \/ CallTransaction
  \/ Return

Spec == Init /\ [][Next]_vars

DevNext ==
  \/ CallBufferClear
  \/ CallBufferByte
  \/ CallBufferBytes
  \/ CallBufferFlush
  \/ CallRead
  \/ CallMpsseSync
  \/ CallMpsseSetClockFreq
  \/ CallMpsseSetLowerPins
  \/ Next

DevSpec == Init /\ [][DevNext]_vars

\* Transaction with an rx_len that the uint16_t len of ReadBytes cannot hold
WideLens == {65536, 65537}

CallTransactionWide ==
  /\ pc = "idle"
  /\ after < MaxAfter
  /\ \E o \in {e \in Envs : Full(e) /\ e.nackAt = 0 /\ e.rfAt = 0 /\ e.ackHi = 0},
        tx_len \in 0..1, rx_len \in WideLens :
       LET d == Transaction(World, o, 24, TxData(tx_len), tx_len, rx_len)
       IN /\ Returns(d, o, [NoCall EXCEPT !.op = "Transaction", !.addr7 = 24,
                                          !.tx = TxData(tx_len), !.tx_len = tx_len,
                                          !.rx_len = rx_len])
          /\ chain' = [phase |-> "off", n |-> 0]

WideNext ==
  \/ CallTransactionWide
  \/ Next

WideSpec == Init /\ [][WideNext]_vars

\* MpsseSync on a device whose echo arrives in pieces: each read returns up
\* to n of the bytes that are waiting
SplitSizes == 0..4

SplitScripts ==
  {p \in UNION {[1..k -> [t : {"settle", "open"}, n : SplitSizes]] : k \in 0..MaxSplitPolls} :
     \A i \in 1..(Len(p) - 1) : p[i].t = "open" => p[i + 1].t = "open"}

CallMpsseSyncSplit ==
  /\ pc = "idle"
  /\ \E polls \in SplitScripts :
       DevReturns(MpsseSync(World, QuietEnv, polls), QuietEnv,
                  [NoCall EXCEPT !.op = "MpsseSync", !.script = polls])

SyncNext ==
  \/ CallMpsseSyncSplit
  \/ Return

SyncSpec == Init /\ [][SyncNext]_vars

\* A device that has just been opened: pins are inputs; the command buffer
\* and the chip's answers may be left from an earlier use of the device
AttachInit ==
  /\ buffer \in {<<>>, <<SET_BITS_LOW, 0, 3>>}
  /\ chip \in {[st |-> 0, dir |-> 0, pend |-> <<>>, rxq |-> q, mode |-> "reset"] :
               q \in {<<>>, <<BAD_COMMAND, 171>>}}
  /\ engine = FALSE
  /\ last = NoCall
  /\ chain = [phase |-> "off", n |-> 0]
  /\ faulted = FALSE
  /\ after = 0
  /\ pc = "idle"
  /\ passed = 0
  /\ devCalls = 0

\* One of the hardware writes of Create is disturbed, or none
CreateEnvs ==
  {QuietEnv} \cup (IF faulted THEN {}
                   ELSE {[QuietEnv EXCEPT !.wfAt = w, !.wfKind = k] :
                           w \in 1..3, k \in {"fail", "short"}})

CallCreate ==
  /\ pc = "idle"
  /\ ~engine
  /\ \E o \in CreateEnvs, scl_khz \in {Khz(0, 1), Khz(100, 1), Khz(400, 1), Khz(2118, 1024)},
        err \in {0, -1},
        polls \in SyncScripts, rst \in {0, -1} :
       DevReturns(Create(World, o, scl_khz, err, polls, 0, rst), o,
                  [NoCall EXCEPT !.op = "Create", !.khz = scl_khz, !.data = err,
                                 !.script = polls, !.rst = rst])

\* The engine Create returned is destroyed
CallDestructor ==
  /\ pc = "idle"
  /\ engine
  /\ \E rst \in {0, -1} :
       DevReturns(Destructor(World, rst), QuietEnv,
                  [NoCall EXCEPT !.op = "Destructor", !.rst = rst])

AttachNext ==
  \/ CallCreate
  \/ CallDestructor
  \/ Return

AttachSpec == AttachInit /\ [][AttachNext]_vars

\* Callers of MpsseWs2812b: every byte is expanded, and frames of up to
\* MaxPixels pixels are sent
PixelValues == {0, 16777215, 10863427, 2139029504}

Frames == UNION {[1..n -> PixelValues] : n \in 0..MaxPixels}

CallExpandByte ==
  /\ pc = "idle"
  /\ \E byte \in 0..255 :
       /\ Returns([World EXCEPT !.bits = ExpandByte(byte)], QuietEnv,
                  [NoCall EXCEPT !.op = "ExpandByte", !.data = byte])
       /\ UNCHANGED chain

CallSendFrame ==
  /\ pc = "idle"
  /\ \E pixels \in Frames :
       /\ Returns(SendFrame(World, pixels), QuietEnv,
                  [NoCall EXCEPT !.op = "SendFrame", !.tx = pixels])
       /\ UNCHANGED chain

PixelNext ==
  \/ CallExpandByte
  \/ CallSendFrame
  \/ Return

PixelSpec == Init /\ [][PixelNext]_vars

-----------------------------------------------------------------------------
(* Observations on the call that has just returned *)

Returned(name) == pc = "returned" /\ last.op = name

\* Every ftdi_write_data of the call accepted all the bytes it was given
AllWritesAccepted == \A i \in 1..Len(last.writes) : last.writes[i].ret = Len(last.writes[i].bytes)

\* Every FtdiDevice::Read of the call collected its bytes
AllReadsOk == \A i \in 1..Len(last.reads) : last.reads[i].why = "ok"

NoIoFailure == AllWritesAccepted /\ AllReadsOk

\* Some / every WriteByte of the call sampled a NACK / an ACK
NackSeen == \E i \in 1..Len(last.ops) : last.ops[i].op = "WriteByte" /\ last.ops[i].ret = 0

AllAcked == \A i \in 1..Len(last.ops) : last.ops[i].op = "WriteByte" => last.ops[i].ret = 1

FirstNack == CHOOSE i \in 1..Len(last.ops) :
               /\ last.ops[i].op = "WriteByte" /\ last.ops[i].ret = 0
               /\ \A j \in 1..(i - 1) : ~(last.ops[j].op = "WriteByte" /\ last.ops[j].ret = 0)

OpNames == [i \in 1..Len(last.ops) |-> last.ops[i].op]

OpCalls == [i \in 1..Len(last.ops) |-> <<last.ops[i].op, last.ops[i].arg>>]

\* Events of the given kinds on the wire, in order
Select(w, kinds) == SelectSeq(w, LAMBDA e : e.k \in kinds)

Ev(k, a, b) == [k |-> k, a |-> a, b |-> b]

\* Bus lines <<SCL, SDA>> that a pin command with these values drives
PinLines(st, dir) == <<SclLine([st |-> st, dir |-> dir]), SdaLine([st |-> st, dir |-> dir])>>

-----------------------------------------------------------------------------
(* Claims *)

ValidArgs == last.tx_len >= 0 /\ last.rx_len >= 0

\* C1: whenever a Transaction that passed argument validation returns, the
\* stop condition has been issued, so both SCL and SDA are high.  Stated for
\* the calls in which the hardware accepted every write it was given, which
\* include the command-buffer-overflow exit path.
C1_StopOnEveryExit ==
  (Returned("Transaction") /\ ValidArgs /\ last.preClean /\ AllWritesAccepted)
    => BothHigh(chip)

\* C2: when an address or data byte is NACKed, Transaction returns -2, the
\* only operation after the NACKed byte is Stop (no data byte, restart,
\* read-address byte or read), and the bus is idle-high on return (given that
\* the hardware accepted the writes).
C2_NackAborts ==
  (Returned("Transaction") /\ NackSeen) =>
     /\ last.ret = -2
     /\ SubSeq(OpNames, FirstNack + 1, Len(last.ops)) = <<"Stop">>
     /\ \A i \in 1..(FirstNack - 1) : last.ops[i].op = "WriteByte" => last.ops[i].ret = 1
     /\ (last.preClean /\ AllWritesAccepted) =>
          /\ BothHigh(chip)
          /\ LET w == Select(last.wire, {"pins", "outM", "outL", "in"})
             IN SubSeq(w, Len(w) - 3, Len(w))
                  = <<Ev("in", 1, last.reads[Len(last.reads)].data[1]),
                      Ev("pins", 0, 3), Ev("pins", 1, 3), Ev("pins", 3, 3)>>

\* Witness of C2: a data byte (not the address) was NACKed with data still to send
C2_Witness ==
  /\ Returned("Transaction") /\ NackSeen /\ last.preClean /\ AllWritesAccepted
  /\ last.tx_len = 2 /\ last.rx_len > 0 /\ FirstNack = 3

\* C3: Transaction returns success only if every hardware write and every
\* read it performed succeeded.
C3_SuccessMeansNoFailure ==
  (Returned("Transaction") /\ ValidArgs /\ last.ret = 0) => NoIoFailure

\* The operations the claim lists for a transaction, as <<name, argument>>
\* (ReadBytes(0) is the empty operation and is left out)
ExpectedOps(addr7, tx, tx_len, rx_len) ==
  LET wr == <<"WriteByte", (2 * addr7) % 256>>
      rd == <<"WriteByte", ((2 * addr7) % 256) + 1>>
      data == [i \in 1..tx_len |-> <<"WriteByte", tx[i]>>]
      read == IF rx_len > 0 THEN <<rd, <<"ReadBytes", rx_len>> >> ELSE <<rd>>
  IN <<<<"Start", 0>>>>
     \o (IF tx_len = 0 THEN read
         ELSE <<wr>> \o data \o (IF rx_len > 0 THEN <<<<"Restart", 0>>>> \o read ELSE <<>>))
     \o <<<<"Stop", 0>>>>

\* C4: when every byte is ACKed and no I/O fails, the operations of one
\* Transaction are, in this order, Start, [write-address byte, data bytes in
\* index order, Restart if rx_len > 0,] read-address byte and ReadBytes(rx_len)
\* [only if a read follows], Stop: one Start first, one Stop last, and a
\* Restart exactly when both lengths are positive.
C4_OperationOrder ==
  (Returned("Transaction") /\ ValidArgs /\ AllAcked /\ NoIoFailure) =>
     /\ OpCalls = ExpectedOps(last.addr7, last.tx, last.tx_len, last.rx_len)
     /\ Cardinality({i \in 1..Len(last.ops) : last.ops[i].op = "Restart"})
          = (IF last.tx_len > 0 /\ last.rx_len > 0 THEN 1 ELSE 0)

\* Witness of C4: a write-then-read transaction ran to the end
C4_Witness ==
  /\ Returned("Transaction") /\ AllAcked /\ NoIoFailure /\ last.ret = 0
  /\ last.tx_len = 2 /\ last.rx_len = 2 /\ last.addr7 = 200

\* Bus activity of the read of n bytes carrying the values data[1..n]
ReadWire(n, data) ==
  [i \in 1..(4 * n) |->
     LET b == (i + 3) \div 4
         j == (i - 1) % 4
     IN IF j = 0 THEN Ev("pins", 0, 1)
        ELSE IF j = 1 THEN Ev("in", 8, data[b])
        ELSE IF j = 2 THEN Ev("pins", 0, 3)
        ELSE Ev("outL", 1, IF b = n THEN 1 ELSE 0)]

\* C5: Transaction with tx_len = 0 and rx_len = N, 1 <= N <= MaxBatch, against
\* an acknowledging device puts exactly one address byte on the bus, with R/W
\* bit 1, then clocks in exactly N bytes, answering 0 (ACK) after each of the
\* first N-1 and 1 (NACK) after the last, and stores the N bytes in arrival order.
C5_ReadOnlyTransaction ==
  (/\ Returned("Transaction") /\ last.tx_len = 0
   /\ last.rx_len >= 1 /\ last.rx_len <= MaxBatch
   /\ last.preClean /\ AllAcked /\ NoIoFailure) =>
     LET n == last.rx_len
         w == Select(last.wire, {"outM", "outL", "in", "pins"})
         addr == Select(last.wire, {"outM"})
         ins == Select(last.wire, {"in"})
         got == [i \in 1..n |-> Select(SubSeq(w, 7, Len(w)), {"in"})[i].b]
     IN /\ Len(addr) = 1 /\ addr[1].a = 8
        /\ addr[1].b % 2 = 1 /\ addr[1].b \div 2 = last.addr7 % 128
        /\ Len(ins) = n + 1
        /\ SubSeq(w, 7, Len(w) - 2) = ReadWire(n, got)
        /\ last.rxbuf = got
        /\ last.ret = 0

\* Witness of C5: the largest read that fits the command buffer, delivered in pieces
C5_Witness ==
  /\ Returned("Transaction") /\ last.tx_len = 0 /\ last.rx_len = MaxBatch
  /\ last.preClean /\ AllAcked /\ NoIoFailure /\ last.ret = 0
  /\ last.env.rfAt = 2

\* C6: in a sequence Start(); WriteByte(x)...; Stop() begun with both lines
\* high and without I/O failure, both lines are driven low after Start and
\* after (hence before) every WriteByte, and both are high after Stop.
C6_LineChain ==
  /\ chain.phase = "open" => BothLow(chip)
  /\ chain.phase = "closed" => BothHigh(chip)

\* Witness of C6: the Stop of a sequence that wrote bytes has returned
C6_Witness == Returned("Stop") /\ chain.phase = "closed" /\ chain.n >= 2

\* The claims about ReadBytes are about a call that finds the command buffer
\* empty and whose I/O does not fail
NominalReadBytes ==
  Returned("ReadBytes") /\ last.rx_len >= 1 /\ last.preClean /\ NoIoFailure

BatchedRead ==
  /\ Len(last.writes) = 1
  /\ Len(last.writes[1].bytes) = BytesPerRead * last.rx_len + 1
  /\ Len(Select(last.wire, {"in"})) = last.rx_len
  /\ last.wire[Len(last.wire)] = Ev("imm", 0, 0)
  /\ Len(last.reads) = 1
  /\ last.reads[1].len = last.rx_len
  /\ last.ret = 0

\* C7 as claimed: for every count >= 1, ReadBytes(count) sends the steps of all
\* count bytes in one hardware write, then does one bulk read of count bytes,
\* and returns success.
C7_AnyCountBatched == NominalReadBytes => BatchedRead

\* C7 as amended: the same for every count from 1 to MaxBatch (46), the largest
\* batch that fits the command buffer; a larger count fails without any
\* hardware write or read.
C7_FittingCountBatched ==
  NominalReadBytes =>
     IF last.rx_len <= MaxBatch THEN BatchedRead
     ELSE last.ret = -1 /\ last.writes = <<>> /\ last.reads = <<>>

\* Witness of C7: the largest batch that fits was sent and read
C7_Witness == NominalReadBytes /\ last.rx_len = MaxBatch /\ last.ret = 0

\* C8: ReadBytes(count >= 1) called with both lines low and completing
\* without I/O failure leaves both SCL and SDA low.
C8_ReadBytesEndsLow ==
  (NominalReadBytes /\ last.preScl = "low" /\ last.preSda = "low" /\ last.ret = 0)
    => BothLow(chip)

\* C9: WriteByte(v) sends in one hardware write the 8-bit MSB-first shift-out
\* of v (idle-low write timing), the pin command making SDA an input, the
\* 1-bit read, send-immediate and the pin command driving SDA and SCL low;
\* it reads exactly one response byte, and returns ACK (1) if bit 0 of that
\* byte is 0 and NACK (0) if it is 1.
C9_WriteByteCommands ==
  (Returned("WriteByte") /\ last.preClean) =>
     /\ Len(last.writes) = 1
     /\ last.writes[1].bytes = <<19, 7, last.data, 128, 0, 1, 34, 0, 135, 128, 0, 3>>
     /\ AllWritesAccepted =>
          /\ Len(last.wire) = 5
          /\ last.wire[1] = Ev("outM", 8, last.data)
          /\ last.wire[2] = Ev("pins", 0, 1)
          /\ last.wire[3].k = "in" /\ last.wire[3].a = 1
          /\ last.wire[4] = Ev("imm", 0, 0)
          /\ last.wire[5] = Ev("pins", 0, 3)
          /\ Len(last.reads) = 1 /\ last.reads[1].len = 1
          /\ AllReadsOk =>
               /\ last.reads[1].data = <<last.wire[3].b>>
               /\ last.ret = (IF last.wire[3].b % 2 = 0 THEN 1 ELSE 0)

\* Witness of C9: an ACK whose response byte has other bits set
C9_Witness ==
  /\ Returned("WriteByte") /\ last.preClean /\ NoIoFailure
  /\ last.reads[1].data = <<254>> /\ last.ret = 1

\* The line changes the claim lists, as <<SCL, SDA>> after each step
ExpectedLines(name) ==
  IF name = "Start" THEN << <<"high", "low">>, <<"low", "low">> >>
  ELSE IF name = "Stop" THEN << <<"high", "low">>, <<"high", "high">> >>
  ELSE << <<"low", "high">>, <<"high", "high">>, <<"high", "low">>, <<"low", "low">> >>

OneLineDiffers(x, y) == (x[1] # y[1] /\ x[2] = y[2]) \/ (x[1] = y[1] /\ x[2] # y[2])

\* C10: Start, Restart and Stop, run from their precondition, issue two, four
\* and two hardware writes of exactly one pin-set command each, and each step
\* changes exactly one of the two lines, in the order the claim gives.
C10_SingleLineSteps ==
  \A name \in {"Start", "Restart", "Stop"} :
    (/\ Returned(name) /\ last.preClean /\ last.ret = 0
     /\ <<last.preScl, last.preSda>>
          = (IF name = "Start" THEN <<"high", "high">> ELSE <<"low", "low">>)) =>
       LET exp == ExpectedLines(name)
           lines == [i \in 1..Len(last.writes) |->
                       PinLines(last.writes[i].bytes[2], last.writes[i].bytes[3])]
           seq == <<<<last.preScl, last.preSda>>>> \o lines
       IN /\ Len(last.writes) = Len(exp)
          /\ \A i \in 1..Len(last.writes) :
               Len(last.writes[i].bytes) = 3 /\ last.writes[i].bytes[1] = 128
          /\ lines = exp
          /\ Select(last.wire, {"pins"}) = last.wire
          /\ Len(last.wire) = Len(exp)
          /\ \A i \in 1..Len(lines) : OneLineDiffers(seq[i], seq[i + 1])
          /\ <<SclLine(chip), SdaLine(chip)>> = exp[Len(exp)]

\* Witness of C10: a repeated start issued with both lines low
C10_Witness ==
  /\ Returned("Restart") /\ last.preClean /\ last.ret = 0
  /\ last.preScl = "low" /\ last.preSda = "low" /\ Len(last.writes) = 4

-----------------------------------------------------------------------------
(* Claims on the command buffer of FtdiDevice (checked under DevSpec) *)

\* C11: in every reachable state the pending length of the command buffer is
\* between 0 and 512.
C11_BufferWithinCapacity == Len(buffer) >= 0 /\ Len(buffer) <= kBufferSize

\* Witness of C11: an append was refused with the buffer completely full
C11_Witness ==
  /\ Returned("BufferByte") /\ last.ret # 0
  /\ Len(last.preBuf) = kBufferSize /\ Len(buffer) = kBufferSize

\* C12: BufferByte / BufferBytes fails exactly when the pending length plus
\* the number of bytes to append exceeds 512, and then leaves the buffer as
\* it was; otherwise it succeeds and the buffer is the old content followed
\* by the appended bytes in order.
C12_AppendAllOrNothing ==
  (Returned("BufferByte") \/ Returned("BufferBytes")) =>
     IF Len(last.preBuf) + Len(last.tx) > kBufferSize
     THEN last.ret # 0 /\ buffer = last.preBuf
     ELSE last.ret = 0 /\ buffer = last.preBuf \o last.tx

\* Witness of C12: a block of which a proper part would still fit is refused
C12_Witness ==
  /\ Returned("BufferBytes") /\ last.ret # 0
  /\ last.preBuf # <<>> /\ Len(last.preBuf) < kBufferSize /\ Len(last.tx) > 1
  /\ Len(last.preBuf) + Len(last.tx) = kBufferSize + 1

\* C13: BufferFlush with an empty buffer succeeds without a hardware write;
\* with k > 0 pending bytes it issues exactly one hardware write of exactly
\* those bytes in order, and if all k are accepted the buffer becomes empty
\* and success is returned.
C13_FlushOneWrite ==
  Returned("BufferFlush") =>
     IF last.preBuf = <<>>
     THEN last.ret = 0 /\ last.writes = <<>> /\ buffer = <<>>
     ELSE /\ Len(last.writes) = 1
          /\ last.writes[1].bytes = last.preBuf
          /\ last.writes[1].ret = Len(last.preBuf) => (buffer = <<>> /\ last.ret = 0)

\* Witness of C13: a flush of several pending bytes that the hardware accepts
C13_Witness ==
  /\ Returned("BufferFlush") /\ Len(last.preBuf) > 1 /\ AllWritesAccepted
  /\ last.ret = 0 /\ buffer = <<>>

\* preBuf is the beginning of buffer
BufferGrew == Len(buffer) >= Len(last.preBuf) /\ SubSeq(buffer, 1, Len(last.preBuf)) = last.preBuf

\* C14: a flush whose hardware write fails or is short returns an error and
\* leaves the pending bytes as they were; the pending length decreases only
\* where BufferClear or a successful BufferFlush has run.
C14_EmptiedOnlyByClearOrFlush ==
  /\ (Returned("BufferFlush") /\ ~AllWritesAccepted) => (last.ret = -1 /\ buffer = last.preBuf)
  /\ (pc = "returned" /\ last.emptied = 0) => BufferGrew

\* Witness of C14: a short flush of several pending bytes
C14_Witness ==
  /\ Returned("BufferFlush") /\ Len(last.preBuf) > 1
  /\ last.writes[1].ret = Len(last.preBuf) - 1
  /\ last.ret = -1 /\ buffer = last.preBuf

\* C15: no command byte that was passed to a hardware write call is passed
\* to a hardware write call a second time (checked for the callers of
\* MpsseI2c, who never flush themselves).
C15_NoByteWrittenTwice == pc = "returned" => last.resent = 0

-----------------------------------------------------------------------------
(* Claims on FtdiDevice::Read (checked under DevSpec) *)

\* The bytes Read has stored at buf
Collected == last.reads[1].data

\* C16: Read(buf, len) returns success exactly when len bytes have been
\* collected, and fails with a timeout only with fewer than len bytes
\* collected.
C16_ReadExact ==
  Returned("Read") =>
     /\ (last.ret = 0) <=> (Len(Collected) = last.rx_len)
     /\ last.reads[1].why = "timeout" => Len(Collected) < last.rx_len

\* C17: when the len bytes arrive in separate deliveries with empty polls
\* in between, all before the deadline, Read succeeds and buf holds the
\* bytes in arrival order.
C17_SplitDeliveries ==
  (Returned("Read") /\ last.env.rfAt = 1 /\ last.env.rfKind = "split"
     /\ last.rx_len >= 2 /\ Len(last.preRxq) >= last.rx_len) =>
       /\ last.ret = 0
       /\ Collected = SubSeq(last.preRxq, 1, last.rx_len)
       /\ chip.rxq = SubSeq(last.preRxq, last.rx_len + 1, Len(last.preRxq))

\* Witness of C17: two different bytes arrive one after the other
C17_Witness ==
  /\ Returned("Read") /\ last.env.rfAt = 1 /\ last.env.rfKind = "split"
  /\ last.rx_len = 2 /\ Len(last.preRxq) >= 2 /\ last.preRxq[1] # last.preRxq[2]
  /\ last.ret = 0 /\ Collected = <<last.preRxq[1], last.preRxq[2]>>

\* What Read returns when ftdi_read_data reports an error
ReadResultOnError == Read(World, [QuietEnv EXCEPT !.rfAt = 1, !.rfKind = "err"], 1).ret

\* C18: the result Read returns when the deadline elapses differs from the
\* result it returns when the underlying read reports an error.
C18_TimeoutDistinct ==
  (Returned("Read") /\ last.rx_len >= 1 /\ last.reads[1].why = "timeout")
    => last.ret # ReadResultOnError

-----------------------------------------------------------------------------
(* Claims on FtdiDevice::MpsseSync (checked under DevSpec) *)

\* All the bytes the reads of the call returned, in order
RECURSIVE Received(_)
Received(polls) == IF polls = <<>> THEN <<>> ELSE Head(polls).data \o Received(Tail(polls))

LastFour(s) == SubSeq(s, IF Len(s) > 4 THEN Len(s) - 3 ELSE 1, Len(s))

PatternSeen(s) == \E i \in 1..(Len(s) - 3) : SubSeq(s, i, i + 3) = SyncPattern

SyncReadFailed == \E i \in 1..Len(last.polls) : last.polls[i].ret < 0

\* C19: MpsseSync writes 0xAB, 0xAA in one write and returns success if and
\* only if the last four bytes received before it stops reading are
\* FA AB FA AA, however the bytes are grouped into reads.
C19_SyncLastFour ==
  Returned("MpsseSync") =>
     /\ Len(last.writes) = 1 /\ last.writes[1].bytes = SyncOut
     /\ (AllWritesAccepted /\ ~SyncReadFailed) =>
          ((last.ret = 0) <=> (LastFour(Received(last.polls)) = SyncPattern))

\* C20: MpsseSync issues no read once more than 10 ms have passed, and
\* fails whenever the echo pattern has not been received by then, also
\* when nothing is received and when the write was short.
C20_SyncDeadline ==
  Returned("MpsseSync") =>
     /\ Len(last.polls) <= Len(last.script)
     /\ \A i \in 1..Len(last.polls) : last.polls[i].t = last.script[i].t
     /\ last.ret \in {0, -1}
     /\ ~AllWritesAccepted => (last.ret = -1 /\ last.polls = <<>>)
     /\ ~PatternSeen(Received(last.polls)) => last.ret = -1

\* Witness of C20: the write is accepted, every read before the deadline
\* returns nothing, and the call fails
C20_Witness ==
  /\ Returned("MpsseSync") /\ AllWritesAccepted /\ last.ret = -1
  /\ last.script # <<>> /\ Len(last.polls) = Len(last.script)
  /\ Received(last.polls) = <<>>

-----------------------------------------------------------------------------
(* Create *)

CreateSteps == <<"ftdi_set_bitmode", "MpsseSync", "MpsseSetClockFreq", "InitializePins">>

\* The hardware writes made before step i of the call ended
WritesUntil(i) == SubSeq(last.writes, 1, last.ops[i].arg)

ClockModeBytes == <<EN_3_PHASE, DIS_ADAPTIVE, DIS_DIV_5>>

\* C21: Create performs, in this order and each at most once, the switch to
\* MPSSE mode, MpsseSync, the clock configuration (three-phase on, adaptive
\* off) and the pin initialisation; a step is performed only when every
\* earlier step succeeded; until MpsseSync has succeeded nothing but the two
\* synchronisation bytes is written; the engine is returned exactly when all
\* four steps succeeded.
C21_CreateOrder ==
  Returned("Create") =>
    /\ Len(last.ops) \in 1..4
    /\ OpNames = SubSeq(CreateSteps, 1, Len(last.ops))
    /\ \A i \in 1..(Len(last.ops) - 1) : last.ops[i].ret = 0
    /\ (last.ret = 0) = (Len(last.ops) = 4 /\ last.ops[4].ret = 0)
    /\ last.ret \in {0, -1}
    /\ \A i \in 1..Len(last.ops) :
         i <= 2 => \A j \in 1..Len(WritesUntil(i)) : WritesUntil(i)[j].bytes = SyncOut
    /\ Len(last.ops) >= 2 =>
         /\ Len(WritesUntil(1)) = 0
         /\ Len(WritesUntil(2)) = 1
    /\ Len(last.ops) >= 3 /\ last.khz.n > 0 =>
         /\ last.ops[3].arg = 2
         /\ Take(last.writes[2].bytes, 3) = ClockModeBytes
         /\ last.writes[2].bytes[4] = TCK_DIVISOR
    /\ Len(last.ops) = 4 =>
         /\ last.ops[4].arg = 3
         /\ last.writes[3].bytes = <<SET_BITS_LOW, 3, 3>>

C21_Witness ==
  /\ Returned("Create") /\ last.ret = 0
  /\ last.preBuf # <<>> /\ last.preRxq # <<>>
  /\ Len(last.writes) = 3 /\ BothHigh(chip) /\ buffer = <<>>

\* Create gives up at each of its steps
C21_WitnessSync == Returned("Create") /\ last.ret = -1 /\ Len(last.ops) = 2 /\ AllWritesAccepted

-----------------------------------------------------------------------------
(* Clock divisor *)

\* a / b < c / d for a, c >= 0 and b, d > 0, without multiplying
RECURSIVE FracLess(_, _, _, _)
FracLess(a, b, c, d) ==
  IF a \div b # c \div d THEN a \div b < c \div d
  ELSE IF c % d = 0 THEN FALSE
  ELSE IF a % b = 0 THEN TRUE
  ELSE FracLess(d, c % d, b, a % b)

FracEq(a, b, c, d) == ~FracLess(a, b, c, d) /\ ~FracLess(c, d, a, b)

ThreePhase == last.tx[1]

\* Half of divisor + 1 = 60000 / (three_phase ? 1.5 khz : khz) / 2, as a fraction
HalfNum == (HalfBase(ThreePhase) \div 2) * last.khz.q

\* div is round(divisor) clamped to 0 .. 65535: div + 1 is within 1/2 of
\* divisor + 1, unless div is 0 (divisor below) or 65535 (divisor above)
IsRoundedDivisor(div) ==
  /\ div \in 0..65535
  /\ div > 0 => ~FracLess(HalfNum, last.khz.n, 2 * (div + 1) - 1, 4)
  /\ div < 65535 => ~FracLess(2 * (div + 1) + 1, 4, HalfNum, last.khz.n)

ClockSet == Returned("MpsseSetClockFreq") /\ last.khz.n > 0

\* C22: for every khz > 0 and both three-phase settings the divisor is
\* round(60000 / (three_phase ? 1.5 khz : khz) / 2 - 1) clamped to 0 .. 65535,
\* the divisor programmed is the one reported, and the achieved frequency is
\* 60000 / (2 (div + 1)) kHz, times 2/3 with three-phase; 400 kHz with
\* three-phase gives divisor 49 and exactly 400 kHz.
C22_DivisorFormula ==
  ClockSet =>
    /\ IsRoundedDivisor(last.div)
    /\ FracEq(last.actual.num, last.actual.den, HalfBase(ThreePhase), last.div + 1)
    /\ SubSeq(last.writes[1].bytes, 4, 6)
         = <<TCK_DIVISOR, last.div % 256, last.div \div 256>>
    /\ last.khz = Khz(400, 1) /\ ThreePhase =>
         /\ last.div = 49
         /\ FracEq(last.actual.num, last.actual.den, 400, 1)

\* div + 1 is within 1/2 + 1/512 of divisor + 1 (floats below 65536 are at
\* most 1/256 apart), unless div is 0 or 65535
IsFloatRoundedDivisor(div) ==
  /\ div \in 0..65535
  /\ div > 0 => ~FracLess(HalfNum, last.khz.n, 512 * (div + 1) - 257, 1024)
  /\ div < 65535 => ~FracLess(512 * (div + 1) + 257, 1024, HalfNum, last.khz.n)

\* The part of C22 the code keeps: whenever the rounded divisor is a value of
\* int, it is the rounded float nearest to the quotient, and the rest of the
\* formula holds
C22_DivisorFormulaInt ==
  ClockSet /\ DivisorFitsInt(last.khz, ThreePhase) =>
    /\ IsFloatRoundedDivisor(last.div)
    /\ FracEq(last.actual.num, last.actual.den, HalfBase(ThreePhase), last.div + 1)
    /\ SubSeq(last.writes[1].bytes, 4, 6)
         = <<TCK_DIVISOR, last.div % 256, last.div \div 256>>
    /\ last.khz.q = 1 => IsRoundedDivisor(last.div)
    /\ last.khz = Khz(400, 1) /\ ThreePhase =>
         /\ last.div = 49
         /\ FracEq(last.actual.num, last.actual.den, 400, 1)

\* The divisor 9668.4995... becomes the float 9668.5 and is rounded to 9669
C22_WitnessFloat ==
  /\ ClockSet /\ last.khz = Khz(2118, 1024) /\ ThreePhase
  /\ last.div = 9669 /\ ~IsRoundedDivisor(last.div)

C22_Witness == ClockSet /\ last.khz = Khz(400, 1) /\ ThreePhase /\ last.div = 49

C22_WitnessClamped == ClockSet /\ last.khz = Khz(1, 4) /\ last.div = 65535 /\ last.ret = 0

\* |achieved - requested| with divisor div, as the fraction ErrNum / (div + 1)
\* of 1 / q kHz
ErrNum(div) ==
  IF HalfBase(ThreePhase) * last.khz.q >= last.khz.n * (div + 1)
  THEN HalfBase(ThreePhase) * last.khz.q - last.khz.n * (div + 1)
  ELSE last.khz.n * (div + 1) - HalfBase(ThreePhase) * last.khz.q

\* The divisors whose error 32 bits can hold
Divisors == {div \in 0..65535 : div + 1 <= 2147483647 \div last.khz.n}

Better(other, div) == FracLess(ErrNum(other), other + 1, ErrNum(div), div + 1)

\* C23: the divisor chosen best approximates the request: no other divisor
\* in 0 .. 65535 gives a strictly smaller absolute frequency error.
C23_BestDivisor ==
  ClockSet /\ DivisorFitsInt(last.khz, ThreePhase) =>
    \A other \in Divisors : ~Better(other, last.div)

\* C24: with khz <= 0 MpsseSetClockFreq fails and has no effect (no hardware
\* write, the command buffer as it was); with khz > 0 it fails only when a
\* hardware write fails, never because the divisor was clamped.
C24_ClockArgument ==
  Returned("MpsseSetClockFreq") =>
    /\ last.khz.n <= 0 =>
         /\ last.ret = -1
         /\ last.writes = <<>>
         /\ buffer = last.preBuf
         /\ last.emptied = 0
    /\ last.khz.n > 0 =>
         /\ Len(last.writes) = 1
         /\ (last.ret = 0) = AllWritesAccepted
         /\ last.ret \in {0, -1}

C24_Witness ==
  /\ Returned("MpsseSetClockFreq") /\ last.khz.n <= 0
  /\ last.preBuf # <<>> /\ buffer = last.preBuf /\ last.ret = -1

C24_WitnessClamped ==
  /\ ClockSet /\ ~DivisorFitsInt(last.khz, ThreePhase)
  /\ last.div = 0 /\ last.ret = 0

-----------------------------------------------------------------------------
(* Pixel encoder *)

\* The i-th group of three bits, i = 0 first
Group(bits, i) == SubSeq(bits, 3 * i + 1, 3 * i + 3)

\* n times the group g
Repeat(g, n) == [k \in 1..(3 * n) |-> g[((k - 1) % 3) + 1]]

\* C25: ExpandByte(b) gives 24 bits whose i-th group of three (i = 0 for the
\* most significant bit of b) is 110 when that bit is 1 and 100 when it is 0;
\* 0x00 gives eight 100, 0xFF eight 110, 0xA5 gives
\* 110,100,110,100,100,110,100,110; the last bit is always 0.
C25_ExpandByte ==
  Returned("ExpandByte") =>
    /\ Len(last.bits) = 24
    /\ \A i \in 0..7 :
         Group(last.bits, i) = IF (last.data \div 2 ^ (7 - i)) % 2 = 1 THEN <<1, 1, 0>>
                               ELSE <<1, 0, 0>>
    /\ last.bits[24] = 0
    /\ last.data = 0 => last.bits = Repeat(<<1, 0, 0>>, 8)
    /\ last.data = 255 => last.bits = Repeat(<<1, 1, 0>>, 8)
    /\ last.data = 165 =>
         last.bits = <<1, 1, 0, 1, 0, 0, 1, 1, 0, 1, 0, 0, 1, 0, 0, 1, 1, 0, 1, 0, 0, 1, 1, 0>>

C25_Witness == Returned("ExpandByte") /\ last.data = 165 /\ Len(last.bits) = 24

\* The byte whose expansion the bits at 24 k + 1 .. 24 k + 24 are
Decoded(bits, k) ==
  LET v(i) == IF Group(bits, 8 * k + i) = <<1, 1, 0>> THEN 2 ^ (7 - i) ELSE 0
  IN v(0) + v(1) + v(2) + v(3) + v(4) + v(5) + v(6) + v(7)

\* C26: SendFrame of n pixels builds one sequence of 72 n bits and gives it
\* to one SendRaw call; each pixel contributes green (bits 15..8), red (bits
\* 23..16), blue (bits 7..0) in this order, bits 31..24 are ignored; the final
\* bit is 0; <<0xFFFFFF, 0x000000>> gives 144 bits ending in 0.
C26_SendFrame ==
  Returned("SendFrame") =>
    /\ Len(last.bits) = 72 * Len(last.tx)
    /\ OpCalls = << <<"SendRaw", 72 * Len(last.tx)>>, <<"SendFrame", Len(last.tx)>> >>
    /\ \A p \in 1..Len(last.tx) :
         /\ \A i \in 0..23 : Group(last.bits, 24 * (p - 1) + i) \in {<<1, 1, 0>>, <<1, 0, 0>>}
         /\ Decoded(last.bits, 3 * (p - 1)) = (last.tx[p] \div 256) % 256
         /\ Decoded(last.bits, 3 * (p - 1) + 1) = (last.tx[p] \div 65536) % 256
         /\ Decoded(last.bits, 3 * (p - 1) + 2) = last.tx[p] % 256
    /\ Len(last.tx) > 0 => last.bits[Len(last.bits)] = 0
    /\ last.tx = <<16777215, 0>> =>
         last.bits = Repeat(<<1, 1, 0>>, 24) \o Repeat(<<1, 0, 0>>, 24)

C26_Witness ==
  /\ Returned("SendFrame") /\ last.tx = <<2139029504, 10863427>>
  /\ Len(last.bits) = 144 /\ last.ret = 0

-----------------------------------------------------------------------------
(* Calls in sequence *)

\* C27: ReadBytes(0, buf) returns success and does nothing: the command
\* buffer is as it was, there is no hardware write and no read, and buf is
\* not written.
C27_ReadNothing ==
  (Returned("ReadBytes") /\ last.rx_len = 0) =>
    /\ last.ret = 0
    /\ buffer = last.preBuf
    /\ last.emptied = 0
    /\ last.writes = <<>>
    /\ last.reads = <<>>
    /\ last.rxbuf = <<>>
    /\ last.wire = <<>>

C27_Witness ==
  /\ Returned("ReadBytes") /\ last.rx_len = 0 /\ last.ret = 0
  /\ last.preBuf # <<>> /\ buffer = last.preBuf

\* The Transaction just returned failed
FailedTransaction == Returned("Transaction") /\ last.ret # 0

\* A Transaction made next, with a small request, against a device that
\* acknowledges and a transport without fault, returns success
NextSmallSucceeds ==
  \A tx_len \in 0..MaxTxLen, rx_len \in 0..MaxRxSmall :
    Transaction(World, QuietEnv, 24, TxData(tx_len), tx_len, rx_len).ret = 0

\* C28: a failed Transaction does not disable the engine: after a Transaction
\* that returned an error for any reason (NACK, transport error, read
\* timeout, batch too large for the buffer), a later Transaction with a small
\* request against a healthy, acknowledging device returns success.
C28_UsableAfterFailure == FailedTransaction => NextSmallSucceeds

\* The part of C28 the code keeps: after a NACK, or arguments refused
C28_UsableAfterNack ==
  (FailedTransaction /\ last.preClean /\ NoIoFailure /\ last.rx_len <= MaxBatch)
    => NextSmallSucceeds

C28_WitnessNack == FailedTransaction /\ last.preClean /\ NackSeen /\ NextSmallSucceeds

I2cOps == {"Start", "Restart", "Stop", "WriteByte", "ReadBytes", "Transaction"}

\* The call succeeded: WriteByte returns 0 or 1, the others 0
Succeeded == last.ret >= 0

\* C29: whenever a public I2C operation (Start, Restart, Stop, WriteByte,
\* ReadBytes, Transaction) returns, with any outcome, the command buffer is
\* empty, so that no byte appended by one operation is sent as part of a
\* later operation's write.
C29_BufferEmptyOnReturn ==
  (pc = "returned" /\ last.op \in I2cOps) =>
    /\ buffer = <<>>
    /\ \A i \in 1..Len(last.writes) :
         Take(last.writes[i].bytes, Len(last.preBuf)) # last.preBuf \/ last.preBuf = <<>>

\* The part of C29 the code keeps: an operation that starts with an empty
\* buffer and succeeds without I/O failure returns with an empty buffer
C29_EmptyAfterSuccess ==
  (pc = "returned" /\ last.op \in I2cOps /\ last.preBuf = <<>> /\ Succeeded /\ NoIoFailure)
    => buffer = <<>>

C29_WitnessSuccess ==
  /\ Returned("Transaction") /\ last.preBuf = <<>> /\ last.ret = 0
  /\ Len(last.writes) > 3 /\ buffer = <<>>

\* The response bytes the chip produced during the call, in order (the call
\* made the chip answer no bad command)
NoBadCommand(wire) == Select(wire, {"bad"}) = <<>>

Produced(wire) == [i \in 1..Len(Select(wire, {"in"})) |-> Select(wire, {"in"})[i].b]

\* The bytes the reads of the call collected, in order
RECURSIVE CollectedAll(_)
CollectedAll(reads) ==
  IF reads = <<>> THEN <<>> ELSE Head(reads).data \o CollectedAll(Tail(reads))

\* C30: every response byte that WriteByte or ReadBytes returns to its caller
\* was produced by the device in response to commands flushed within that
\* same call, in any sequence of operations: no byte left from an earlier
\* call (read timeout, failed flush) is taken as acknowledge bit or data.
C30_ResponsesAligned ==
  (pc = "returned" /\ last.op \in {"WriteByte", "ReadBytes"} /\ Succeeded
     /\ CollectedAll(last.reads) # <<>>) =>
    /\ last.preRxq = <<>>
    /\ NoBadCommand(last.wire) =>
         CollectedAll(last.reads) = Take(Produced(last.wire), Len(CollectedAll(last.reads)))

\* The part of C30 the code keeps: with nothing left over at entry
C30_AlignedWhenClean ==
  (pc = "returned" /\ last.op \in {"WriteByte", "ReadBytes"} /\ Succeeded
     /\ CollectedAll(last.reads) # <<>> /\ last.preClean) =>
    /\ NoBadCommand(last.wire)
    /\ CollectedAll(last.reads) = Produced(last.wire)

C30_WitnessClean ==
  /\ Returned("ReadBytes") /\ last.preClean /\ last.rx_len = 2 /\ Succeeded
  /\ CollectedAll(last.reads) = Produced(last.wire)

-----------------------------------------------------------------------------
(* Transaction: preconditions, lengths, address byte, arguments *)

\* Bits clocked on the bus during the call: bytes shifted out or in
Clocked == Select(last.wire, {"outM", "outL", "in"})

ByteOps == {"WriteByte", "ReadBytes"}

\* C31: inside Transaction, WriteByte and ReadBytes are invoked only after a
\* Start or Restart that completed: when Start or Restart fails, no WriteByte
\* or ReadBytes follows and no address or data byte is clocked on the bus.
C31_BytesOnlyAfterStart ==
  Returned("Transaction") =>
    /\ \A i \in 1..Len(last.ops) :
         (last.ops[i].op \in {"Start", "Restart"} /\ last.ops[i].ret # 0) =>
           \A j \in (i + 1)..Len(last.ops) : last.ops[j].op \notin ByteOps
    /\ (Len(last.ops) > 0 /\ last.ops[1].op = "Start" /\ last.ops[1].ret # 0) =>
         Clocked = <<>>

\* The part of C31 the code keeps: with every hardware write accepted, Start
\* and Restart succeed before every WriteByte and ReadBytes
C31_StartSucceedsWithoutFault ==
  (Returned("Transaction") /\ last.preClean /\ AllWritesAccepted) =>
    \A i \in 1..Len(last.ops) :
      last.ops[i].op \in {"Start", "Restart"} => last.ops[i].ret = 0

\* The bytes clocked in from the device during the call (8-bit reads)
BytesClockedIn == SelectSeq(last.wire, LAMBDA e : e.k = "in" /\ e.a = 8)

\* C32: when Transaction returns success for a request with rx_len = N,
\* exactly N bytes were clocked in from the device and stored in rx_buf, for
\* every N >= 0 of int, also N >= 65536.
C32_ReadLength ==
  (Returned("Transaction") /\ ValidArgs /\ last.ret = 0 /\ last.preClean /\ NoIoFailure) =>
    /\ Len(BytesClockedIn) = last.rx_len
    /\ Len(last.rxbuf) = last.rx_len

\* The part of C32 the code keeps: lengths that fit 16 bits
C32_ReadLength16 == last.rx_len < 65536 => C32_ReadLength

C32_Witness16 ==
  /\ Returned("Transaction") /\ last.ret = 0 /\ last.preClean /\ NoIoFailure
  /\ last.rx_len = MaxBatch /\ Len(last.rxbuf) = MaxBatch

-----------------------------------------------------------------------------
(* MpsseSync: bytes left over, and echo bytes split across reads *)

\* The echo bytes the chip queued for the bad commands of this call
EchoProduced == Select(last.wire, {"bad"})

\* C33: MpsseSync does not report success on bytes that waited in the receive
\* queue before it wrote its two bad commands: whenever it returns success,
\* the four echo bytes of its own two commands have been read and no response
\* byte is left unread.
C33_SyncOwnEcho ==
  (Returned("MpsseSync") /\ last.ret = 0) =>
    /\ chip.rxq = <<>>
    /\ Len(Received(last.polls)) = Len(last.preRxq) + 2 * Len(EchoProduced)
    /\ Len(EchoProduced) = 2

\* The part of C33 the code keeps: with nothing waiting at entry
C33_SyncOwnEchoClean ==
  (Returned("MpsseSync") /\ last.ret = 0 /\ last.preRxq = <<>>) =>
    /\ chip.rxq = <<>>
    /\ Received(last.polls) = SyncPattern

\* The device answered each of the two bad commands with FA and the command
AnsweredBoth ==
  /\ Len(EchoProduced) = 2
  /\ EchoProduced[1].a = SyncOut[1] /\ EchoProduced[2].a = SyncOut[2]

\* C34: against a device that starts with an empty receive queue and answers
\* every bad command c with FA, c, MpsseSync returns success whenever the four
\* echo bytes arrive within 10 ms, however they are split across the reads
\* and with any number of empty reads in between.
C34_SyncSplitEcho ==
  (Returned("MpsseSync") /\ last.preRxq = <<>> /\ AnsweredBoth
     /\ Len(Received(last.polls)) = 4) =>
    /\ last.ret = 0
    /\ Received(last.polls) = SyncPattern
    /\ chip.rxq = <<>>

\* One byte per read, with an empty read in between
C34_Witness ==
  /\ Returned("MpsseSync") /\ last.preRxq = <<>> /\ last.ret = 0
  /\ \E i \in 1..Len(last.polls) : last.polls[i].ret = 0
  /\ \E i \in 1..Len(last.polls) : last.polls[i].ret = 1
  /\ \E i \in 1..Len(last.polls) : last.polls[i].ret = 3

C34_WitnessLate ==
  Returned("MpsseSync") /\ last.ret = -1 /\ Len(Received(last.polls)) = 3

\* The six bytes of a clock configuration with divisor div
ClockBytes(three_phase, adaptive, div) ==
  <<IF three_phase THEN 140 ELSE 141, IF adaptive THEN 150 ELSE 151, 138, 134,
    div % 256, div \div 256>>

\* C35: with khz > 0 MpsseSetClockFreq makes one hardware write of exactly
\* six bytes: 8C with three-phase else 8D, 96 with adaptive clocking else 97,
\* 8A, 86, divisor low, divisor high; the bytes pending in the command buffer
\* before the call are not sent; 1 kHz, two-phase, non-adaptive sends
\* 8D 97 8A 86 2F 75.
C35_ClockBytes ==
  ClockSet =>
    /\ Len(last.writes) = 1
    /\ last.div \in 0..65535
    /\ last.writes[1].bytes = ClockBytes(last.tx[1], last.tx[2], last.div)
    /\ (last.khz = Khz(1, 1) /\ ~last.tx[1] /\ ~last.tx[2]) =>
         last.writes[1].bytes = <<141, 151, 138, 134, 47, 117>>

\* Three bytes were pending when 1 kHz, two-phase, non-adaptive was set
C35_Witness ==
  /\ ClockSet /\ last.preBuf # <<>> /\ last.ret = 0
  /\ last.khz = Khz(1, 1) /\ ~last.tx[1] /\ ~last.tx[2]
  /\ last.writes[1].bytes = <<141, 151, 138, 134, 47, 117>>

C35_WitnessThreePhase ==
  /\ ClockSet /\ last.tx[1] /\ last.tx[2]
  /\ SubSeq(last.writes[1].bytes, 1, 2) = <<140, 150>>

\* The bytes clocked out most significant bit first
BytesOut == SelectSeq(last.wire, LAMBDA e : e.k = "outM" /\ e.a = 8)

\* The address byte of the read phase is the one after Restart, or the first
\* byte when nothing is written
ReadAddressAt(i) ==
  /\ last.ops[i].op = "WriteByte"
  /\ \/ last.ops[i - 1].op = "Restart"
     \/ i = 2 /\ last.tx_len = 0

\* C36: the address byte Transaction writes for addr7 in 0..127 is
\* 2 * addr7 + rw in 8 bits, rw = 0 in the write phase and 1 in the read
\* phase; different 7-bit addresses never give the same address byte (the
\* address and rw are read back from the byte); the address byte of the write
\* phase is sent exactly when tx_len > 0.
C36_AddressByte ==
  /\ \A a \in 0..127 : \A r \in BOOLEAN :
       /\ Addr7ToData(a, r) = 2 * a + (IF r THEN 1 ELSE 0)
       /\ Addr7ToData(a, r) \in 0..255
       /\ Addr7ToData(a, r) \div 2 = a
       /\ (Addr7ToData(a, r) % 2 = 1) = r
  /\ (Returned("Transaction") /\ ValidArgs /\ last.addr7 \in 0..127) =>
       /\ last.ops[2].op = "WriteByte"
       /\ (last.ops[2].arg = 2 * last.addr7) = (last.tx_len > 0)
       /\ \A i \in 2..Len(last.ops) :
            /\ ReadAddressAt(i) => last.ops[i].arg = 2 * last.addr7 + 1
            /\ (last.ops[i].op = "WriteByte" /\ last.ops[i].arg = 2 * last.addr7 + 1)
                  => ReadAddressAt(i)
       /\ (last.preClean /\ AllWritesAccepted) =>
            /\ BytesOut # <<>>
            /\ BytesOut[1].b = 2 * last.addr7 + (IF last.tx_len > 0 THEN 0 ELSE 1)

\* Address 127 written and then read: FE, data, restart, FF
C36_Witness ==
  /\ Returned("Transaction") /\ last.addr7 = 127 /\ last.tx_len > 0 /\ last.rx_len > 0
  /\ last.ret = 0 /\ last.preClean /\ NoIoFailure
  /\ BytesOut[1].b = 254
  /\ BytesOut[Len(BytesOut)].b = 255

C36_WitnessReadOnly ==
  /\ Returned("Transaction") /\ last.addr7 = 24 /\ last.tx_len = 0 /\ last.ret = 0
  /\ last.preClean /\ NoIoFailure
  /\ BytesOut = <<Ev("outM", 8, 49)>>

\* C37: Transaction with tx_len < 0 or rx_len < 0 returns -1 without bus
\* activity: neither Start nor Stop is issued, there is no hardware write or
\* read, and the command buffer is as it was.
C37_InvalidLength ==
  (Returned("Transaction") /\ ~ValidArgs) =>
    /\ last.ret = -1
    /\ last.ops = <<>>
    /\ last.writes = <<>> /\ last.reads = <<>> /\ last.wire = <<>>
    /\ buffer = last.preBuf
    /\ chip.rxq = last.preRxq
    /\ SclLine(chip) = last.preScl /\ SdaLine(chip) = last.preSda

C37_Witness ==
  /\ Returned("Transaction") /\ last.tx_len < 0 /\ last.rx_len > 0
  /\ last.ret = -1 /\ last.writes = <<>>

C37_WitnessRx ==
  /\ Returned("Transaction") /\ last.rx_len < 0 /\ last.tx_len > 0
  /\ last.ret = -1 /\ last.preBuf # <<>> /\ buffer = last.preBuf

\* Create gave up at MpsseSync, the clock configuration or the pins
GaveUpLate == Returned("Create") /\ last.ret # 0 /\ Len(last.ops) >= 2

\* The bit-mode requests of the call end with one reset request
ResetRequested ==
  /\ last.modes # <<>>
  /\ last.modes[Len(last.modes)] = [mode |-> "reset", ret |-> last.rst]
  /\ Cardinality({i \in 1..Len(last.modes) : last.modes[i].mode = "reset"}) = 1

\* After a successful Create the buffer is empty and both lines are driven high
CreatedIdle ==
  (Returned("Create") /\ last.ret = 0) =>
    /\ engine /\ chip.mode = "mpsse"
    /\ buffer = <<>> /\ passed = 0
    /\ BothHigh(chip)
    /\ \A i \in 1..Len(last.modes) : last.modes[i].mode # "reset"

\* C38: when MpsseSync, the clock configuration or the pin initialisation
\* fails in Create, no engine is returned and the bit mode has been reset when
\* Create returns; after a successful Create the command buffer is empty and
\* both lines are driven high; destroying an engine always resets the bit mode.
C38_CreateCleanup ==
  /\ GaveUpLate => /\ last.ret = -1 /\ ~engine
                   /\ chip.mode = "reset"
  /\ CreatedIdle
  /\ Returned("Destructor") => ~engine /\ chip.mode = "reset"

\* C38 as the code has it: the reset is requested once on each of these paths
\* and the chip leaves MPSSE mode when libftdi reports the request done; a
\* failed request is printed and the chip stays in MPSSE mode.
C38_CleanupRequested ==
  /\ GaveUpLate => /\ last.ret = -1 /\ ~engine
                   /\ ResetRequested
                   /\ (chip.mode = "reset") = (last.rst = 0)
  /\ CreatedIdle
  /\ Returned("Destructor") => /\ ~engine
                               /\ ResetRequested
                               /\ (chip.mode = "reset") = (last.rst = 0)
  /\ (Returned("Create") /\ Len(last.ops) = 1) =>
       /\ last.ret = -1 /\ ~engine
       /\ last.modes = <<[mode |-> "mpsse", ret |-> last.data]>>

\* Create gave up at the pins and the reset went through
C38_Witness ==
  /\ GaveUpLate /\ Len(last.ops) = 4 /\ last.rst = 0
  /\ chip.mode = "reset" /\ ~engine

C38_WitnessDestroyed ==
  Returned("Destructor") /\ last.rst = 0 /\ chip.mode = "reset" /\ ~engine

C38_WitnessCreated ==
  Returned("Create") /\ last.ret = 0 /\ last.preBuf # <<>> /\ buffer = <<>> /\ BothHigh(chip)

\* Bytes the call took from the response stream
Consumed == Len(last.preRxq) - Len(chip.rxq)

\* C39: Read never takes more than the requested bytes from the response
\* stream: after k of the len bytes have been collected the next poll asks
\* for at most len - k bytes, the call takes at most len bytes in all, and
\* the bytes of a later response stay unread.
C39_ReadAtMostLen ==
  Returned("Read") =>
    /\ \A i \in 1..Len(last.polls) :
         /\ last.polls[i].asked = last.rx_len - Len(Received(SubSeq(last.polls, 1, i - 1)))
         /\ last.polls[i].asked >= 0
         /\ last.polls[i].ret <= last.polls[i].asked
    /\ Consumed \in 0..last.rx_len
    /\ Received(last.polls) = Take(last.preRxq, Consumed)
    /\ chip.rxq = Drop(last.preRxq, Consumed)
    /\ last.reads[1].why # "toomany"

\* One byte asked for, four waiting; the other three stay
C39_Witness ==
  /\ Returned("Read") /\ last.rx_len = 1 /\ Len(last.preRxq) = 4
  /\ last.ret = 0 /\ Len(chip.rxq) = 3

\* Two bytes collected by two polls: the second asks for one
C39_WitnessSplit ==
  /\ Returned("Read") /\ last.rx_len = 2 /\ last.ret = 0 /\ Len(last.preRxq) > 2
  /\ \E i \in 1..Len(last.polls) : last.polls[i].asked = 1 /\ last.polls[i].ret = 1

====
